---- MODULE Spec2Model ----
(***************************************************************************)
(* Conversation orchestration engine of jecko-assistant.                   *)
(*                                                                         *)
(*   SpecChat : one streaming OpenAIClient.chat() call, chunk by chunk,    *)
(*              then executeToolCalls call by call (src/src/openai.ts).    *)
(*   Spec     : one user request driven by ChatMode.execute or             *)
(*              AgentMode.execute, each chat() call one step                *)
(*              (src/unnamed/part_001, src/src/modes/agent.ts).            *)
(*   SpecAll  : both of the above.                                         *)
(*   SpecRegistry : the tool registry filled by the constructor and by     *)
(*              initializeMCPClients (src/src/openai.ts).                  *)
(*   SpecCompact : ConversationCompactor.compact (src/unnamed/part_006).   *)
(*   SpecMcp  : MCPClientManager.initialize and disconnect                 *)
(*              (src/unnamed/part_003).                                    *)
(*                                                                         *)
(* Text is a sequence of pieces, string concatenation is \o.               *)
(***************************************************************************)
EXTENDS Integers, Sequences, FiniteSets, TLC

VARIABLES
    \* ---- the client ----
    tools,                  \* this.tools : name -> the tool registered under it
    \* ---- filling the registry (SpecRegistry) ----
    rpc,                    \* constructor | ready | mcp
    toRegister,             \* the tools the running for loop has still to register
    registered,             \* every registration made, in order (history)
    warnings,               \* the names console.warn reported a conflict for, in order
    mcpRuns,                \* runs of initializeMCPClients started so far
    \* ---- one chat() call (SpecChat) ----
    cpc,                    \* position in chat(): start|streaming|executing|returned|failed
    useTools,               \* the useTools argument
    reqTools,               \* the tools field of the request sent to the provider
    pending,                \* what the provider has still to stream, per tool-call index
    intended,               \* the whole tool calls the provider streams (history)
    pendingContent,         \* content deltas the provider has still to stream
    fullContent,            \* let fullContent
    accumulatedToolCalls,   \* let accumulatedToolCalls : index -> call record
    toolCalls,              \* Object.values(accumulatedToolCalls)
    cursor,                 \* position of the for loop of executeToolCalls
    inflight,               \* TRUE while tool.execute of toolCalls[cursor] is awaited
    toolCallResults,        \* const toolCallResults
    events,                 \* callbacks and tool executions, in the order they happen
    usage,                  \* let usage; the usage of the ChatResponse once returned
    usageSent,              \* whether a chunk of the stream carried usage (history)
    prompt,                 \* contents of allMessages, set where the call reads them
    messagesArg,            \* the messages argument of chat(), the caller's list
    requests,               \* client.chat.completions.create calls of this chat()
    arrival,                \* tool-call indexes in the order they first arrived (history)
    response,               \* the ChatResponse chat() resolved with
    \* ---- one user request (Spec) ----
    mode,                   \* "chat" (ChatMode.execute) or "agent" (AgentMode.execute)
    pc,                     \* running | done | failed
    currentMessages,        \* the working message list
    previousMessages,       \* the previousMessages argument
    iteration,              \* let iteration (AgentMode)
    responses,              \* const responses : string[] (AgentMode)
    allToolCalls,           \* allToolCalls
    chatCalls,              \* chat() calls made so far (history)
    newMessageSignals,      \* onNewMessage calls since the last chat() call (history)
    history,                \* the ChatResponse of every chat() call, in order (history)
    lastSent,               \* the messages argument of the latest chat() call (history)
    returned,               \* the value execute resolved with
    \* ---- one compaction (SpecCompact) ----
    messages,               \* the messages argument of compact
    keepRecentCount,        \* the keepRecentCount argument of compact
    compactPc,              \* start | summarizing | returned
    compactResult,          \* the CompactionResult compact resolved with
    summaryCalls,           \* summarization chat() calls issued by this compact
    summaryOutcome,         \* none | resolved | rejected : how that call ended
    compactions,            \* compact calls made so far on this conversation
    \* ---- the MCP client manager (SpecMcp) ----
    mcpServers,             \* the server names of config.mcpServers
    health,                 \* server -> what of it fails, if anything
    initState,              \* initialize call -> notStarted | running | resolved | registered
    attempts,               \* connectToServer call -> where it is
    clients,                \* this.clients : server name -> connection
    managerTools,           \* this.tools of the manager: "server:tool" -> MCPClientTool
    closeLog,               \* client.close() calls: by which disconnect, on what (history)
    dpc,                    \* idle | closing : position in disconnect
    disconnectCalls,        \* disconnect calls that have resolved
    \* ---- the chat screen (SpecUi) ----
    uiInput,                \* state.chat.input : characters typed, counted
    isLoading,              \* state.chat.isLoading
    showCommandSelector,    \* state.ui.showCommandSelector
    activeCommand,          \* state.ui.activeCommand.type : none | compact
    uiMode,                 \* state.chat.mode : CHAT | AGENT
    chatMessages,           \* state.chat.messages : its length, up to MaxUiMessages
    lowContext,             \* contextUsageInfo.remainingPercentage <= 10
    running,                \* the execute calls that have not returned
    timers,                 \* the setTimeout(checkAutoCompactionActual) pending
    compacting,             \* the performCompaction calls awaiting compactor.compact
    replacedWhileRunning,   \* setMessages was dispatched while an execute ran (history)
    \* ---- the schema bridge to the provider (SpecSchema) ----
    schema,                 \* the tool's parameter schema, a zod schema
    converter,              \* which of the two copies of zodSchemaToOpenAIProperty
    property,               \* the OpenAIProperty returned
    zpc,                    \* schema | converted
    \* ---- the schema of an MCP tool (SpecJsonSchema) ----
    jsonSchema,             \* mcpTool.inputSchema, as the server advertised it
    toolInput,              \* the params a call of the wrapper is made with
    parsed,                 \* what tool.schema.parse(params) gave
    jpc,                    \* advertised | parsed | settled
    executed,               \* the params the tool's own execute was invoked with (history)
    toolResult,             \* the ToolCallResult pushed for the call
    \* ---- what is sent to the provider (SpecRequest) ----
    listA,                  \* a conversation as the screen holds it
    listB,                  \* one that differs from listA in UI-only fields at most
    requestA,               \* the first provider request made for listA, per entry point
    requestB,               \* the same for listB
    qpc                     \* lists | sent

cvars == <<cpc, useTools, reqTools, pending, intended, pendingContent, fullContent,
           accumulatedToolCalls, toolCalls, cursor, inflight, toolCallResults,
           events, response, usage, usageSent, prompt, arrival, messagesArg, requests>>
ovars == <<mode, pc, currentMessages, previousMessages, iteration, responses, allToolCalls,
           chatCalls, newMessageSignals, history, lastSent, returned>>
rvars == <<rpc, toRegister, registered, warnings, mcpRuns>>
kvars == <<messages, keepRecentCount, compactPc, compactResult, summaryCalls,
           summaryOutcome, compactions>>
mvars == <<mcpServers, health, initState, attempts, clients, managerTools, closeLog,
           dpc, disconnectCalls>>
uvars == <<uiInput, isLoading, showCommandSelector, activeCommand, uiMode, chatMessages,
           lowContext, running, timers, compacting, replacedWhileRunning>>
zvars == <<schema, converter, property, zpc>>
\* the components beside the MCP client manager and the chat screen
jvars == <<jsonSchema, toolInput, parsed, jpc, executed, toolResult>>
qvars == <<listA, listB, requestA, requestB, qpc>>
wvars == <<zvars, jvars, qvars>>
\* the components beside the MCP client manager
yvars == <<uvars, wvars>>
\* the components beside the client, the modes, the registry and the compactor
xvars == <<mvars, yvars>>
vars == <<tools, cvars, ovars, rvars, kvars, xvars>>

(***************************************************************************)
(* Bounds of the model.                                                    *)
(***************************************************************************)
\* tool-call indexes a stream may use: 0 .. MaxIndex - 1
MaxIndex == 2
\* content deltas of one stream
MaxContent == 1
\* tool-bearing responses the provider gives to one ChatMode request
MaxRounds == 3
\* AgentMode's iteration budget; agent.ts:41 sets 25, the model runs a scaled budget
maxIterations == 4
\* tools passed to the constructor
MaxBuiltIn == 2
\* tool wrappers one run of initializeMCPClients gets from the manager
MaxMcpTools == 2
\* runs of initializeMCPClients on one client: the constructor starts one,
\* OpenAIClient.create awaits another
MaxMcpRuns == 2
\* non-tool messages of a conversation given to compact
MaxConversational == 10
\* tool-role messages of a conversation given to compact
MaxToolMessages == 7
\* the keepRecentCount argument of compact: 0 .. MaxKeep
MaxKeep == 3
\* compact calls in a row on one conversation
MaxCompactions == 2
\* disconnect calls on one MCP client manager
MaxDisconnects == 2
\* characters in the input line of the chat screen
MaxInput == 1
\* execute calls of the chat screen in flight
MaxExecutes == 2
\* auto-compaction timers pending
MaxTimers == 1
\* the length up to which the screen's message list is counted
MaxUiMessages == 7
\* performCompaction calls in flight
MaxCompacting == 1
\* wrappers (optional, nullable, default) around one field of a schema
MaxWrap == 2
\* keys of the object at the top of a schema
MaxKeys == 2
\* properties of the inputSchema an MCP server advertises
MaxProperties == 2
\* messages of the conversation a request is built from
MaxListLength == 2

Indexes == 0 .. (MaxIndex - 1)

(***************************************************************************)
(* Texts, names, JSON.                                                     *)
(***************************************************************************)
\* an id is a text; NoId stands for an absent tool_call_id
NoId == <<>>
Digits == <<"0", "1", "2", "3", "4", "5", "6", "7", "8", "9">>
None == [content |-> <<"<none>">>, toolCalls |-> <<>>, messagesToAdd |-> <<>>]

web_search == <<"web_", "search">>
agent_done == <<"agent_", "done">>
\* a tool exposed by an MCP server, under its bare name
mcp_tool == <<"mcp_", "tool">>
\* a name no tool is registered under (a proper prefix of web_search)
ghost_tool == <<"web_">>

builtInTools == {web_search, agent_done}

\* the registry after a constructor call with one tool per built-in name
BuiltInRegistry == [n \in builtInTools |-> <<"builtin">>]

\* no registration in progress: the registry is as constructed
IdleRegistry ==
    /\ rpc = "idle"
    /\ toRegister = <<>>
    /\ registered = <<>>
    /\ warnings = <<>>
    /\ mcpRuns = 0

NoCompactionResult ==
    [compactedMessages |-> <<>>, tokensSaved |-> 0, originalCount |-> 0,
     compactedCount |-> 0]

\* no compaction in progress
IdleCompactor ==
    /\ messages = <<>>
    /\ keepRecentCount = 0
    /\ compactPc = "idle"
    /\ compactResult = NoCompactionResult
    /\ summaryCalls = 0
    /\ summaryOutcome = "none"
    /\ compactions = 0

\* no MCP server configured, nothing connected
IdleMcp ==
    /\ mcpServers = {}
    /\ health = <<>>
    /\ initState = <<>>
    /\ attempts = <<>>
    /\ clients = <<>>
    /\ managerTools = <<>>
    /\ closeLog = {}
    /\ dpc = "idle"
    /\ disconnectCalls = 0

\* the components of xvars at rest
\* the chat screen is not part of the run
IdleUi ==
    /\ uiInput = 0
    /\ isLoading = FALSE
    /\ showCommandSelector = FALSE
    /\ activeCommand = "none"
    /\ uiMode = "CHAT"
    /\ chatMessages = 0
    /\ lowContext = FALSE
    /\ running = <<>>
    /\ timers = <<>>
    /\ compacting = <<>>
    /\ replacedWhileRunning = FALSE

\* no schema is being converted
IdleSchema ==
    /\ schema = <<>>
    /\ converter = "none"
    /\ property = <<>>
    /\ zpc = "idle"

\* no MCP tool schema is being rebuilt
IdleJsonSchema ==
    /\ jsonSchema = <<>>
    /\ toolInput = <<>>
    /\ parsed = <<>>
    /\ jpc = "idle"
    /\ executed = <<>>
    /\ toolResult = <<>>

\* no request is being compared
IdleProviderRequest ==
    /\ listA = <<>>
    /\ listB = <<>>
    /\ requestA = <<>>
    /\ requestB = <<>>
    /\ qpc = "idle"

IdleOthers == IdleMcp /\ IdleUi /\ IdleSchema /\ IdleJsonSchema /\ IdleProviderRequest

\* argument texts the provider may send: JSON objects and a truncated one
ArgsEmptyObject == <<"{", "}">>
ArgsQuery == <<"{", "q", "}">>
ArgsTruncated == <<"{">>

\* JSON.parse on the argument text: an object is "{", members without braces, "}"
JSONValid(text) ==
    /\ Len(text) >= 2
    /\ text[1] = "{"
    /\ text[Len(text)] = "}"
    /\ \A i \in 2 .. (Len(text) - 1) : text[i] \notin {"{", "}"}

\* the parsed object, as the sequence of its members
JSONParse(text) == SubSeq(text, 2, Len(text) - 1)

EmptyObject == <<>>

NoResponseContent == <<"No response content">>
ToolExecutionFailed == <<"Tool execution failed">>
ErrorPrefix == "Error: "

\* fullContent || 'No response content'
ContentOrDefault(c) == IF c = <<>> THEN NoResponseContent ELSE c

(***************************************************************************)
(* The tool world: what tool.execute does with a call.                     *)
(*   "ok"    resolves with a non-empty text                                *)
(*   "empty" resolves with the empty string                                *)
(*   "throw" throws or rejects (createTool's schema.parse included)        *)
(***************************************************************************)
Outcomes == {"ok", "empty", "throw"}

\* the text a successful execute of the call with this id resolves with
ResultText(id) == <<"result of">> \o id

ExecuteResult(call, outcome) ==
    CASE outcome = "ok" -> ResultText(call.id)
      [] outcome = "empty" -> <<>>
      [] OTHER -> <<ErrorPrefix, "tool failed">>

(***************************************************************************)
(* OpenAIClient.executeToolCalls, src/src/openai.ts:367-447                *)
(***************************************************************************)
\* this.tools.get(toolName) finds a tool
\* ToolKnown answered from the definitions sent with the request
ToolKnownAtRequest(call) == call.name \in reqTools.defs

ToolKnown(call) == call.name \in DOMAIN tools

\* CatchResult keeping the raw argument text as args
CatchResultRawArgs(call, msg) ==
    [name |-> call.name, args |-> call.arguments, result |-> <<ErrorPrefix, msg>>]

\* the catch branch: args parsed again, {} when that fails too; result "Error: ..."
CatchResult(call, msg) ==
    [name |-> call.name,
     args |-> IF JSONValid(call.arguments) THEN JSONParse(call.arguments) ELSE EmptyObject,
     result |-> <<ErrorPrefix, msg>>]

\* ExecOne without a result for a call whose execute throws
ExecOneDropThrown(results, call, outcome) ==
    IF ~ToolKnown(call) THEN results
    ELSE IF ~JSONValid(call.arguments)
         THEN Append(results, CatchResult(call, "bad json"))
    ELSE IF outcome = "throw" THEN results
    ELSE Append(results, [name |-> call.name,
                          args |-> JSONParse(call.arguments),
                          result |-> ExecuteResult(call, outcome)])

\* ExecOne reporting a call to an unknown tool as a failed call
ExecOneReportUnknown(results, call, outcome) ==
    IF ~ToolKnown(call) THEN Append(results, CatchResult(call, "unknown tool"))
    ELSE IF ~JSONValid(call.arguments)
         THEN Append(results, CatchResult(call, "bad json"))
    ELSE IF outcome = "throw"
         THEN Append(results, CatchResult(call, "tool failed"))
    ELSE Append(results, [name |-> call.name,
                          args |-> JSONParse(call.arguments),
                          result |-> ExecuteResult(call, outcome)])

\* one pass of the for loop over toolCalls: the results after the call is handled
ExecOne(results, call, outcome) ==
    IF ~ToolKnown(call) THEN results
    ELSE IF ~JSONValid(call.arguments)
         THEN Append(results, CatchResult(call, "bad json"))
    ELSE IF outcome = "throw"
         THEN Append(results, CatchResult(call, "tool failed"))
    ELSE Append(results, [name |-> call.name,
                          args |-> JSONParse(call.arguments),
                          result |-> ExecuteResult(call, outcome)])

\* the whole loop: outcomes[i] is what execute of calls[i] does, if it is reached
RECURSIVE ExecLoop(_, _, _, _)
ExecLoop(calls, outcomes, i, results) ==
    IF i > Len(calls) THEN results
    ELSE ExecLoop(calls, outcomes, i + 1, ExecOne(results, calls[i], outcomes[i]))

AssistantToolCallMessage(calls) ==
    [role |-> "assistant", content |-> <<>>, tool_call_id |-> NoId,
     tool_calls |-> calls, isInternal |-> FALSE]

\* toolCallResults[index]?.result || 'Tool execution failed'
ToolResponseContent(results, index) ==
    IF index <= Len(results) /\ results[index].result # <<>>
    THEN results[index].result
    ELSE ToolExecutionFailed

\* ToolResponseMessages mapping over the results instead of the calls
ToolResponseMessagesPerResult(calls, results) ==
    [i \in 1 .. Len(results) |->
        [role |-> "tool", content |-> ToolResponseContent(results, i),
         tool_call_id |-> calls[i].id, tool_calls |-> <<>>, isInternal |-> FALSE]]

ToolResponseMessages(calls, results) ==
    [i \in 1 .. Len(calls) |->
        [role |-> "tool", content |-> ToolResponseContent(results, i),
         tool_call_id |-> calls[i].id, tool_calls |-> <<>>, isInternal |-> FALSE]]

BuildMessagesToAdd(calls, results) ==
    <<AssistantToolCallMessage(calls)>> \o ToolResponseMessages(calls, results)

(***************************************************************************)
(* OpenAIClient.chat, streaming path, src/src/openai.ts:128-299            *)
(***************************************************************************)
\* the calls a provider may stream at one index: a registered tool with whole
\* or truncated arguments, an unknown tool
\* while the tools of an MCP server are being discovered: a tool of that
\* server, a built-in tool
CallChoices ==
    IF rpc = "idle"
    THEN { [name |-> web_search, arguments |-> ArgsEmptyObject],
           [name |-> web_search, arguments |-> ArgsTruncated],
           [name |-> ghost_tool, arguments |-> ArgsTruncated] }
    ELSE { [name |-> mcp_tool, arguments |-> ArgsEmptyObject],
           [name |-> web_search, arguments |-> ArgsEmptyObject],
           [name |-> web_search, arguments |-> ArgsTruncated] }

\* the id the provider gives the call it streams at index i
StreamId(i) == <<"call_", Digits[i + 1]>>

NoRequest == [sent |-> FALSE, toolsDefined |-> FALSE, defs |-> {}]

\* this.getToolDefinitions(): one function schema per registered tool
getToolDefinitions == DOMAIN tools

\* tools: useTools ? this.getToolDefinitions() : undefined
RequestFor(flag) ==
    [sent |-> TRUE, toolsDefined |-> flag, defs |-> IF flag THEN getToolDefinitions ELSE {}]

\* AccumulateDelta with `=` in place of `+=` on the argument text
AccumulateDeltaOverwrite(acc, toolCall) ==
    LET index == toolCall.index
        base == IF index \in DOMAIN acc
                THEN acc
                ELSE [j \in DOMAIN acc \cup {index} |->
                        IF j = index
                        THEN [id |-> toolCall.id, name |-> <<>>, arguments |-> <<>>]
                        ELSE acc[j]]
        withName == IF toolCall.name # <<>>
                    THEN [base EXCEPT ![index].name = @ \o toolCall.name]
                    ELSE base
    IN  IF toolCall.arguments # <<>>
        THEN [withName EXCEPT ![index].arguments = toolCall.arguments]
        ELSE withName

\* the body of `for (const toolCall of delta.tool_calls)`, lines 233-252
AccumulateDelta(acc, toolCall) ==
    LET index == toolCall.index
        base == IF index \in DOMAIN acc
                THEN acc
                ELSE [j \in DOMAIN acc \cup {index} |->
                        IF j = index
                        THEN [id |-> toolCall.id, name |-> <<>>, arguments |-> <<>>]
                        ELSE acc[j]]
        withName == IF toolCall.name # <<>>
                    THEN [base EXCEPT ![index].name = @ \o toolCall.name]
                    ELSE base
    IN  IF toolCall.arguments # <<>>
        THEN [withName EXCEPT ![index].arguments = @ \o toolCall.arguments]
        ELSE withName

\* Object.values(accumulatedToolCalls): integer keys come in ascending order
RECURSIVE ObjectValues(_)
ObjectValues(acc) ==
    IF DOMAIN acc = {} THEN <<>>
    ELSE LET lo == CHOOSE i \in DOMAIN acc : \A j \in DOMAIN acc : i <= j
         IN  <<acc[lo]>> \o ObjectValues([j \in DOMAIN acc \ {lo} |-> acc[j]])

Event(ev, id) == [ev |-> ev, id |-> id]

\* how the awaited tool.execute settles
Settlement(outcome) ==
    CASE outcome = "ok" -> "resolved"
      [] outcome = "empty" -> "resolvedEmpty"
      [] OTHER -> "rejected"
Settlements == {"resolved", "resolvedEmpty", "rejected"}

\* the ChatResponse of a call without tool calls, lines 296-299
PlainResponse(content) ==
    [content |-> ContentOrDefault(content), toolCalls |-> <<>>, messagesToAdd |-> <<>>]

\* the ChatResponse of a call with tool calls, lines 279-284
ToolResponse(content, calls, results) ==
    [content |-> ContentOrDefault(content), toolCalls |-> results,
     messagesToAdd |-> BuildMessagesToAdd(calls, results)]

EmptyMap == [j \in {} |-> <<>>]

\* string.length of a text
RECURSIVE Chars(_)
Chars(text) == IF Len(text) = 0 THEN 0 ELSE Len(text[1]) + Chars(Tail(text))

\* messages.map((msg) => msg.content).join(' ').length
RECURSIVE JoinedChars(_)
JoinedChars(contents) ==
    IF Len(contents) = 0 THEN 0
    ELSE IF Len(contents) = 1 THEN Chars(contents[1])
    ELSE Chars(contents[1]) + 1 + JoinedChars(Tail(contents))

\* Math.ceil(n / 4)
CeilDiv4(n) == (n + 3) \div 4

NoUsage == [source |-> "undefined", promptTokens |-> 0, completionTokens |-> 0,
            totalTokens |-> 0]

\* the counts a provider reports in chunk.usage
ProviderUsage == [source |-> "provider", promptTokens |-> 12, completionTokens |-> 5,
                  totalTokens |-> 17]

\* OpenAIClient.estimateTokenUsage, lines 465-482
estimateTokenUsage(contents, responseContent) ==
    LET promptTokens == CeilDiv4(JoinedChars(contents))
        completionTokens == CeilDiv4(Chars(responseContent))
    IN  [source |-> "estimate", promptTokens |-> promptTokens,
         completionTokens |-> completionTokens,
         totalTokens |-> promptTokens + completionTokens]

SystemPrompt == <<"You are Jecko, a helpful AI assistant.">>

\* the contents of allMessages = [systemMessage, ...messages] of a call
Prompts ==
    { <<SystemPrompt, <<"question">>>>,
      <<SystemPrompt, <<"hi">>, <<"hello">>, <<"question?">>>> }

\* a message with role and content only
PlainMessage(role, content) ==
    [role |-> role, content |-> content, tool_call_id |-> NoId, tool_calls |-> <<>>,
     isInternal |-> FALSE]

\* the lists chat() may be called with: a first question, a question after an
\* exchange
ChatArguments ==
    { <<PlainMessage("user", <<"question">>)>>,
      <<PlainMessage("user", <<"hi">>), PlainMessage("assistant", <<"hello">>),
        PlainMessage("user", <<"question?">>)>> }

\* the contents of const allMessages = [systemMessage, ...messages], line 178
allMessages == <<SystemPrompt>> \o [k \in 1 .. Len(messagesArg) |-> messagesArg[k].content]

\* await this.client.chat.completions.create(...) resolves with a stream
SendRequest ==
    /\ cpc = "start"
    /\ reqTools' = RequestFor(useTools)
    /\ \E dom \in SUBSET Indexes :
         \E f \in [dom -> CallChoices] :
            /\ intended' = [i \in dom |-> [id |-> StreamId(i), name |-> f[i].name,
                                           arguments |-> f[i].arguments]]
            /\ pending' = [i \in dom |-> [name |-> f[i].name, arguments |-> f[i].arguments,
                                          started |-> FALSE]]
    /\ pendingContent' \in 0 .. MaxContent
    /\ cpc' = "streaming"
    /\ UNCHANGED <<tools, useTools, fullContent, accumulatedToolCalls, toolCalls, cursor,
                   inflight, toolCallResults, events, response, ovars>>
    /\ UNCHANGED <<usage, usageSent, prompt, arrival>>
    /\ requests' = requests + 1
    /\ UNCHANGED messagesArg
    /\ UNCHANGED <<rvars, kvars, xvars>>

\* create(...) rejects: the catch of line 360 rethrows
RejectRequest ==
    /\ cpc = "start"
    /\ reqTools' = RequestFor(useTools)
    /\ cpc' = "failed"
    /\ UNCHANGED <<tools, useTools, pending, intended, pendingContent, fullContent,
                   accumulatedToolCalls, toolCalls, cursor, inflight, toolCallResults,
                   events, response, ovars>>
    /\ UNCHANGED <<usage, usageSent, prompt, arrival>>
    /\ requests' = requests + 1
    /\ UNCHANGED messagesArg
    /\ UNCHANGED <<rvars, kvars, xvars>>

\* a chunk with delta.content, lines 227-230
ContentDelta ==
    /\ cpc = "streaming"
    /\ pendingContent > 0
    /\ pendingContent' = pendingContent - 1
    /\ fullContent' = fullContent \o <<"tok">>
    /\ UNCHANGED <<tools, cpc, useTools, reqTools, pending, intended, accumulatedToolCalls,
                   toolCalls, cursor, inflight, toolCallResults, events, response, ovars>>
    /\ UNCHANGED <<usage, usageSent, prompt, arrival>>
    /\ UNCHANGED <<messagesArg, requests>>
    /\ UNCHANGED <<rvars, kvars, xvars>>

\* a chunk with one delta.tool_calls entry: the next kn pieces of the name and
\* the next ka pieces of the argument text of index i; the first carries the id
ToolCallDelta ==
    /\ cpc = "streaming"
    /\ \E i \in DOMAIN pending :
         \E kn \in 0 .. Len(pending[i].name), ka \in 0 .. Len(pending[i].arguments) :
            /\ kn + ka > 0 \/ ~pending[i].started
            /\ accumulatedToolCalls' =
                 AccumulateDelta(accumulatedToolCalls,
                    [index |-> i,
                     id |-> IF pending[i].started THEN NoId ELSE StreamId(i),
                     name |-> SubSeq(pending[i].name, 1, kn),
                     arguments |-> SubSeq(pending[i].arguments, 1, ka)])
            /\ pending' = [pending EXCEPT
                 ![i] = [name |-> SubSeq(pending[i].name, kn + 1, Len(pending[i].name)),
                         arguments |-> SubSeq(pending[i].arguments, ka + 1,
                                              Len(pending[i].arguments)),
                         started |-> TRUE]]
            /\ arrival' = IF pending[i].started THEN arrival ELSE Append(arrival, i)
    /\ UNCHANGED <<tools, cpc, useTools, reqTools, intended, pendingContent, fullContent,
                   toolCalls, cursor, inflight, toolCallResults, events, response, ovars>>
    /\ UNCHANGED <<usage, usageSent, prompt>>
    /\ UNCHANGED <<messagesArg, requests>>
    /\ UNCHANGED <<rvars, kvars, xvars>>

\* the stream throws while it is consumed: the catch of line 360 rethrows and
\* the locals of the call are gone
StreamError ==
    /\ cpc = "streaming"
    /\ cpc' = "failed"
    /\ pending' = EmptyMap
    /\ intended' = EmptyMap
    /\ pendingContent' = 0
    /\ fullContent' = <<>>
    /\ accumulatedToolCalls' = EmptyMap
    /\ usage' = NoUsage
    /\ arrival' = <<>>
    /\ UNCHANGED <<tools, useTools, reqTools, toolCalls, cursor, inflight, toolCallResults,
                   events, response, usageSent, prompt, ovars>>
    /\ UNCHANGED <<messagesArg, requests>>
    /\ UNCHANGED <<rvars, kvars, xvars>>

StreamDelivered ==
    /\ pendingContent = 0
    /\ \A i \in DOMAIN pending :
         pending[i].started /\ pending[i].name = <<>> /\ pending[i].arguments = <<>>

\* StreamEnd with onComplete called before the tools are executed
StreamEndEarlyComplete ==
    /\ cpc = "streaming"
    /\ StreamDelivered
    /\ toolCalls' = ObjectValues(accumulatedToolCalls)
    /\ events' = Append(events, Event("onComplete", NoId))
    /\ IF Len(toolCalls') > 0
       THEN /\ cpc' = "executing"
            /\ cursor' = 1
            /\ UNCHANGED response
       ELSE /\ cpc' = "returned"
            /\ response' = PlainResponse(fullContent)
            /\ UNCHANGED cursor
    /\ UNCHANGED <<tools, useTools, reqTools, pending, intended, pendingContent, fullContent,
                   accumulatedToolCalls, inflight, toolCallResults, ovars>>
    /\ UNCHANGED <<usage, usageSent, prompt, arrival>>
    /\ UNCHANGED <<messagesArg, requests>>
    /\ UNCHANGED <<rvars, kvars, xvars>>

\* the last chunk of the stream carries usage, lines 255-263
UsageChunk ==
    /\ cpc = "streaming"
    /\ StreamDelivered
    /\ ~usageSent
    /\ usageSent' = TRUE
    /\ usage' = ProviderUsage
    /\ events' = Append(events, Event("onUsage", NoId))
    /\ UNCHANGED <<tools, cpc, useTools, reqTools, pending, intended, pendingContent,
                   fullContent, accumulatedToolCalls, toolCalls, cursor, inflight,
                   toolCallResults, response, prompt, arrival, ovars>>
    /\ UNCHANGED <<messagesArg, requests>>
    /\ UNCHANGED <<rvars, kvars, xvars>>

\* the stream ends, lines 266-299
StreamEnd ==
    /\ cpc = "streaming"
    /\ StreamDelivered
    /\ toolCalls' = ObjectValues(accumulatedToolCalls)
    /\ IF Len(toolCalls') > 0
       THEN /\ cpc' = "executing"
            /\ cursor' = 1
            /\ UNCHANGED <<events, response, usage, prompt>>
       ELSE /\ cpc' = "returned"
            /\ IF usage = NoUsage
               THEN /\ prompt' = allMessages
                    /\ usage' = estimateTokenUsage(prompt', fullContent)
                    /\ events' = events \o <<Event("onComplete", NoId),
                                             Event("onUsage", NoId)>>
               ELSE /\ events' = Append(events, Event("onComplete", NoId))
                    /\ UNCHANGED <<usage, prompt>>
            /\ response' = PlainResponse(fullContent)
            /\ UNCHANGED cursor
    /\ UNCHANGED <<tools, useTools, reqTools, pending, intended, pendingContent, fullContent,
                   accumulatedToolCalls, inflight, toolCallResults, usageSent, arrival,
                   ovars>>
    /\ UNCHANGED <<messagesArg, requests>>
    /\ UNCHANGED <<rvars, kvars, xvars>>

InLoop == cpc = "executing" /\ cursor <= Len(toolCalls)

\* lines 388-391: no tool of that name, console.warn (the event "warn") and
\* continue
SkipUnknown ==
    /\ InLoop /\ ~inflight
    /\ ~ToolKnown(toolCalls[cursor])
    /\ toolCallResults' = ExecOne(toolCallResults, toolCalls[cursor], "ok")
    /\ events' = Append(events, Event("warn", toolCalls[cursor].id))
    /\ cursor' = cursor + 1
    /\ UNCHANGED <<tools, cpc, useTools, reqTools, pending, intended, pendingContent,
                   fullContent, accumulatedToolCalls, toolCalls, inflight,
                   response, ovars>>
    /\ UNCHANGED <<usage, usageSent, prompt, arrival>>
    /\ UNCHANGED <<messagesArg, requests>>
    /\ UNCHANGED <<rvars, kvars, xvars>>

\* lines 394, 405-424: JSON.parse throws, the catch reports the call and its error
ArgumentsFail ==
    /\ InLoop /\ ~inflight
    /\ ToolKnown(toolCalls[cursor])
    /\ ~JSONValid(toolCalls[cursor].arguments)
    /\ events' = Append(events, Event("onToolCall", toolCalls[cursor].id))
    /\ toolCallResults' = ExecOne(toolCallResults, toolCalls[cursor], "ok")
    /\ cursor' = cursor + 1
    /\ UNCHANGED <<tools, cpc, useTools, reqTools, pending, intended, pendingContent,
                   fullContent, accumulatedToolCalls, toolCalls, inflight, response, ovars>>
    /\ UNCHANGED <<usage, usageSent, prompt, arrival>>
    /\ UNCHANGED <<messagesArg, requests>>
    /\ UNCHANGED <<rvars, kvars, xvars>>

\* lines 394-399: arguments parsed, onToolCall, tool.execute started and awaited
StartExecute ==
    /\ InLoop /\ ~inflight
    /\ ToolKnown(toolCalls[cursor])
    /\ JSONValid(toolCalls[cursor].arguments)
    /\ events' = events \o <<Event("onToolCall", toolCalls[cursor].id),
                             Event("execute", toolCalls[cursor].id)>>
    /\ inflight' = TRUE
    /\ UNCHANGED <<tools, cpc, useTools, reqTools, pending, intended, pendingContent,
                   fullContent, accumulatedToolCalls, toolCalls, cursor, toolCallResults,
                   response, ovars>>
    /\ UNCHANGED <<usage, usageSent, prompt, arrival>>
    /\ UNCHANGED <<messagesArg, requests>>
    /\ UNCHANGED <<rvars, kvars, xvars>>

\* lines 399-424: execute settles; a rejection runs the catch, which calls
\* onToolCall again
SettleExecute ==
    /\ InLoop /\ inflight
    /\ \E outcome \in Outcomes :
         /\ events' = events \o <<Event(Settlement(outcome), toolCalls[cursor].id)>>
                        \o (IF outcome = "throw"
                            THEN <<Event("onToolCall", toolCalls[cursor].id)>>
                            ELSE <<>>)
         /\ toolCallResults' = ExecOne(toolCallResults, toolCalls[cursor], outcome)
    /\ inflight' = FALSE
    /\ cursor' = cursor + 1
    /\ UNCHANGED <<tools, cpc, useTools, reqTools, pending, intended, pendingContent,
                   fullContent, accumulatedToolCalls, toolCalls, response, ovars>>
    /\ UNCHANGED <<usage, usageSent, prompt, arrival>>
    /\ UNCHANGED <<messagesArg, requests>>
    /\ UNCHANGED <<rvars, kvars, xvars>>

\* ReturnWithTools pushing the tool messages onto the caller's list
ReturnWithToolsAppends ==
    /\ cpc = "executing"
    /\ cursor > Len(toolCalls)
    /\ events' = Append(events, Event("onComplete", NoId))
    /\ response' = ToolResponse(fullContent, toolCalls, toolCallResults)
    /\ messagesArg' = messagesArg \o response'.messagesToAdd
    /\ cpc' = "returned"
    /\ UNCHANGED <<tools, useTools, reqTools, pending, intended, pendingContent, fullContent,
                   accumulatedToolCalls, toolCalls, cursor, inflight, toolCallResults, ovars>>
    /\ UNCHANGED <<usage, usageSent, prompt, arrival, requests>>
    /\ UNCHANGED <<rvars, kvars, xvars>>

\* ReturnWithTools returning no messagesToAdd
ReturnWithToolsNoMessages ==
    /\ cpc = "executing"
    /\ cursor > Len(toolCalls)
    /\ events' = Append(events, Event("onComplete", NoId))
    /\ response' = [ToolResponse(fullContent, toolCalls, toolCallResults)
                       EXCEPT !.messagesToAdd = <<>>]
    /\ cpc' = "returned"
    /\ UNCHANGED <<tools, useTools, reqTools, pending, intended, pendingContent, fullContent,
                   accumulatedToolCalls, toolCalls, cursor, inflight, toolCallResults, ovars>>
    /\ UNCHANGED <<usage, usageSent, prompt, arrival>>
    /\ UNCHANGED <<messagesArg, requests>>
    /\ UNCHANGED <<rvars, kvars, xvars>>

\* lines 427-446 and 276-284: messagesToAdd built, onComplete, chat() resolves
ReturnWithTools ==
    /\ cpc = "executing"
    /\ cursor > Len(toolCalls)
    /\ events' = Append(events, Event("onComplete", NoId))
    /\ response' = ToolResponse(fullContent, toolCalls, toolCallResults)
    /\ cpc' = "returned"
    /\ UNCHANGED <<tools, useTools, reqTools, pending, intended, pendingContent, fullContent,
                   accumulatedToolCalls, toolCalls, cursor, inflight, toolCallResults, ovars>>
    /\ UNCHANGED <<usage, usageSent, prompt, arrival>>
    /\ UNCHANGED <<messagesArg, requests>>
    /\ UNCHANGED <<rvars, kvars, xvars>>

IdleRequest ==
    /\ mode = "none"
    /\ pc = "idle"
    /\ currentMessages = <<>>
    /\ previousMessages = <<>>
    /\ iteration = 0
    /\ responses = <<>>
    /\ allToolCalls = <<>>
    /\ chatCalls = 0
    /\ newMessageSignals = 0
    /\ history = <<>>
    /\ lastSent = <<>>
    /\ returned = None

InitChat ==
    /\ tools = BuiltInRegistry
    /\ IdleRegistry
    /\ IdleCompactor
    /\ IdleOthers
    /\ cpc = "start"
    /\ useTools \in BOOLEAN
    /\ reqTools = NoRequest
    /\ pending = EmptyMap
    /\ intended = EmptyMap
    /\ pendingContent = 0
    /\ fullContent = <<>>
    /\ accumulatedToolCalls = EmptyMap
    /\ toolCalls = <<>>
    /\ cursor = 0
    /\ inflight = FALSE
    /\ toolCallResults = <<>>
    /\ events = <<>>
    /\ response = None
    /\ usage = NoUsage
    /\ usageSent = FALSE
    /\ prompt = <<>>
    /\ arrival = <<>>
    /\ messagesArg \in ChatArguments
    /\ requests = 0
    /\ IdleRequest

(***************************************************************************)
(* OpenAIClient.chat, non-streaming path, src/src/openai.ts:300-359, as a  *)
(* function of what the provider answers and of how each tool behaves.     *)
(***************************************************************************)
\* completion.choices[0].message.tool_calls for the output whose calls the
\* stream carries at their indexes: the calls in the order of the list
CompletionToolCalls(calls) == ObjectValues(calls)

\* how the tool behaved on the call with this id
OutcomeOf(id) ==
    IF \E k \in 1 .. Len(events) : events[k] = Event("rejected", id) THEN "throw"
    ELSE IF \E k \in 1 .. Len(events) : events[k] = Event("resolvedEmpty", id) THEN "empty"
    ELSE "ok"

RECURSIVE ExecuteToolCalls(_, _)
\* the for loop of executeToolCalls, lines 384-425, over the calls left
ExecuteToolCalls(results, calls) ==
    IF calls = <<>> THEN results
    ELSE ExecuteToolCalls(ExecOne(results, Head(calls), OutcomeOf(Head(calls).id)),
                          Tail(calls))

\* the tools the loop executes, in order: tool found and arguments parsed
ExecutedBy(calls) ==
    LET run == SelectSeq(calls, LAMBDA c : ToolKnown(c) /\ JSONValid(c.arguments))
    IN  [k \in 1 .. Len(run) |-> run[k].id]

\* lines 329-358: what chat() without callbacks resolves with
NonStreamingResponse(content, calls) ==
    IF Len(calls) > 0
    THEN ToolResponse(content, calls, ExecuteToolCalls(<<>>, calls))
    ELSE PlainResponse(content)

NextChat ==
    \/ SendRequest
    \/ RejectRequest
    \/ ContentDelta
    \/ ToolCallDelta
    \/ StreamError
    \/ UsageChunk
    \/ StreamEnd
    \/ SkipUnknown
    \/ ArgumentsFail
    \/ StartExecute
    \/ SettleExecute
    \/ ReturnWithTools

SpecChat == InitChat /\ [][NextChat]_vars

(***************************************************************************)
(* One user request: the provider and the tools as the orchestrators see   *)
(* them, one whole chat() call at a time.                                  *)
(***************************************************************************)
Call(name, arguments) == [name |-> name, arguments |-> arguments]

\* what one provider response and the tools it triggers may be: whether the
\* response has content, the tool calls it carries, what each execute does
ProviderOutputs ==
    { [hasContent |-> TRUE,  calls |-> <<>>, outcomes |-> <<>>],
      [hasContent |-> FALSE, calls |-> <<>>, outcomes |-> <<>>],
      [hasContent |-> FALSE, calls |-> <<Call(web_search, ArgsQuery)>>,
                             outcomes |-> <<"ok">>],
      [hasContent |-> TRUE,  calls |-> <<Call(web_search, ArgsQuery)>>,
                             outcomes |-> <<"throw">>],
      [hasContent |-> FALSE, calls |-> <<Call(ghost_tool, ArgsEmptyObject)>>,
                             outcomes |-> <<"ok">>],
      [hasContent |-> FALSE, calls |-> <<Call(agent_done, ArgsQuery)>>,
                             outcomes |-> <<"ok">>],
      [hasContent |-> FALSE, calls |-> <<Call(agent_done, ArgsTruncated)>>,
                             outcomes |-> <<"ok">>],
      [hasContent |-> FALSE, calls |-> <<Call(ghost_tool, ArgsEmptyObject),
                                         Call(web_search, ArgsQuery)>>,
                             outcomes |-> <<"ok", "ok">>],
      [hasContent |-> TRUE,  calls |-> <<Call(web_search, ArgsQuery),
                                         Call(agent_done, ArgsQuery)>>,
                             outcomes |-> <<"empty", "ok">>] }

\* the content the provider sends in its n-th response, when it sends any
ContentOf(n) == <<"text", Digits[n + 1]>>

\* the id the provider gives the k-th tool call of its n-th response
CallId(n, k) == <<"call_", Digits[n + 1], Digits[k + 1]>>

\* OpenAIClient.chat as its caller sees it: the n-th call of the request, the
\* provider answering with out
chat(out, n) ==
    LET content == IF out.hasContent THEN ContentOf(n) ELSE <<>>
        calls == [k \in 1 .. Len(out.calls) |->
                    [id |-> CallId(n, k), name |-> out.calls[k].name,
                     arguments |-> out.calls[k].arguments]]
    IN  IF Len(calls) > 0
        THEN ToolResponse(content, calls, ExecLoop(calls, out.outcomes, 1, <<>>))
        ELSE PlainResponse(content)

\* response.messagesToAdd && response.messagesToAdd.length > 0
HasMessagesToAdd(result) == Len(result.messagesToAdd) > 0

UserMessage(content, internal) ==
    [role |-> "user", content |-> content, tool_call_id |-> NoId,
     tool_calls |-> <<>>, isInternal |-> internal]

AssistantMessage(content) ==
    [role |-> "assistant", content |-> content, tool_call_id |-> NoId,
     tool_calls |-> <<>>, isInternal |-> FALSE]

\* the conversations a request may start from
PreviousConversations ==
    { <<>>, <<UserMessage(<<"hi">>, FALSE), AssistantMessage(<<"hello">>)>> }

UserInput == <<"question">>

\* array.join(sep) over texts
RECURSIVE Join(_, _)
Join(texts, sep) ==
    IF Len(texts) = 0 THEN <<>>
    ELSE IF Len(texts) = 1 THEN texts[1]
    ELSE texts[1] \o sep \o Join(Tail(texts), sep)

BlankLine == <<"\n\n">>
MaxIterationsNotice == <<"\n[Agent mode reached maximum iterations limit]">>

(***************************************************************************)
(* ChatMode.execute, src/unnamed/part_001:9-69                             *)
(***************************************************************************)
\* ChatModeStep returning the first response whatever it carries
ChatModeSingleCall ==
    /\ mode = "chat"
    /\ pc = "running"
    /\ \E out \in ProviderOutputs :
         LET result == chat(out, chatCalls + 1) IN
         /\ chatCalls' = chatCalls + 1
         /\ lastSent' = currentMessages
         /\ history' = Append(history, result)
         /\ pc' = "done"
         /\ newMessageSignals' = 0
         /\ returned' = result
    /\ UNCHANGED <<tools, cvars, mode, currentMessages, previousMessages, iteration,
                   responses, allToolCalls>>
    /\ UNCHANGED <<rvars, kvars, xvars>>

\* one pass of while (true): a chat() call that resolves, and what follows it
ChatModeStep ==
    /\ mode = "chat"
    /\ pc = "running"
    /\ \E out \in ProviderOutputs :
         LET result == chat(out, chatCalls + 1) IN
         /\ HasMessagesToAdd(result) => chatCalls < MaxRounds
         /\ chatCalls' = chatCalls + 1
         /\ lastSent' = currentMessages
         /\ history' = Append(history, result)
         /\ IF HasMessagesToAdd(result)
            THEN /\ currentMessages' = currentMessages \o result.messagesToAdd
                 /\ allToolCalls' = allToolCalls \o result.toolCalls
                 /\ newMessageSignals' = 1
                 /\ UNCHANGED <<pc, returned>>
            ELSE /\ pc' = "done"
                 /\ newMessageSignals' = 0
                 /\ returned' = [content |-> result.content,
                                 toolCalls |-> IF Len(allToolCalls) > 0
                                               THEN allToolCalls
                                               ELSE result.toolCalls,
                                 messagesToAdd |-> result.messagesToAdd]
                 /\ UNCHANGED <<currentMessages, allToolCalls>>
    /\ UNCHANGED <<tools, cvars, mode, previousMessages, iteration, responses>>
    /\ UNCHANGED <<rvars, kvars, xvars>>

(***************************************************************************)
(* AgentMode.execute, src/src/modes/agent.ts:9-139                         *)
(***************************************************************************)
\* LoopContinues with <= in place of <
LoopContinuesOffByOne(it) == it <= maxIterations

\* while (iteration < maxIterations)
LoopContinues(it) == it < maxIterations

\* AgentDoneCalled counting only an agent_done call that succeeded
AgentDoneSucceeded(result) ==
    \E k \in 1 .. Len(result.toolCalls) :
        /\ result.toolCalls[k].name = agent_done
        /\ result.toolCalls[k].result[1] # ErrorPrefix

\* result.toolCalls.find((tc) => tc.name === 'agent_done')
AgentDoneCalled(result) ==
    \E k \in 1 .. Len(result.toolCalls) : result.toolCalls[k].name = agent_done

\* ContinuationPrompt without the wrap-up warning
ContinuationPromptNoWarning(remainingIterations, afterTools) ==
    IF remainingIterations = 0
    THEN <<"FINAL TURN", IF afterTools THEN "after tools" ELSE "after analysis">>
    ELSE <<"turns remaining", Digits[remainingIterations + 1],
           IF afterTools THEN "after tools" ELSE "after analysis">>

\* the continuation prompt, lines 83-95 (after tool calls) and 109-121
ContinuationPrompt(remainingIterations, afterTools) ==
    IF remainingIterations = 0
    THEN <<"FINAL TURN", IF afterTools THEN "after tools" ELSE "after analysis">>
    ELSE IF remainingIterations <= 1
    THEN <<"only 1 turn remaining", IF afterTools THEN "after tools" ELSE "after analysis">>
    ELSE <<"turns remaining", Digits[remainingIterations + 1],
           IF afterTools THEN "after tools" ELSE "after analysis">>

\* AgentReturn giving the content of the last response alone
AgentReturnLastResponse(it, resps, calls) ==
    [content |-> resps[Len(resps)],
     toolCalls |-> calls,
     messagesToAdd |-> <<>>]

\* the value returned once the loop has ended, lines 131-138
AgentReturn(it, resps, calls) ==
    [content |-> Join(IF it >= maxIterations
                      THEN Append(resps, MaxIterationsNotice)
                      ELSE resps, BlankLine),
     toolCalls |-> calls,
     messagesToAdd |-> <<>>]

\* one pass of the while loop: a chat() call that resolves and what follows it,
\* with the return when the loop ends
AgentStep ==
    /\ mode = "agent"
    /\ pc = "running"
    /\ LoopContinues(iteration)
    /\ \E out \in ProviderOutputs :
         LET it == iteration + 1
             result == chat(out, it)
             resps == Append(responses, result.content)
             trivial == it = 1 /\ ~HasMessagesToAdd(result)
             withTools == HasMessagesToAdd(result)
             done == withTools /\ AgentDoneCalled(result)
             calls == IF withTools THEN allToolCalls \o result.toolCalls ELSE allToolCalls
             added == IF withTools THEN result.messagesToAdd
                      ELSE <<AssistantMessage(result.content)>>
             break == trivial \/ done
         IN
         /\ iteration' = it
         /\ chatCalls' = chatCalls + 1
         /\ lastSent' = currentMessages
         /\ history' = Append(history, result)
         /\ responses' = resps
         /\ allToolCalls' = calls
         /\ currentMessages' =
              IF trivial THEN currentMessages
              ELSE IF done THEN currentMessages \o added
              ELSE currentMessages \o added
                     \o <<UserMessage(ContinuationPrompt(maxIterations - it, withTools),
                                      TRUE)>>
         /\ newMessageSignals' = IF withTools /\ ~done THEN 1 ELSE 0
         /\ IF break \/ ~LoopContinues(it)
            THEN /\ pc' = "done"
                 /\ returned' = AgentReturn(it, resps, calls)
            ELSE UNCHANGED <<pc, returned>>
    /\ UNCHANGED <<tools, cvars, mode, previousMessages>>
    /\ UNCHANGED <<rvars, kvars, xvars>>

\* ChatThrows going round the loop again after the rejection
ChatThrowsRetry ==
    /\ pc = "running"
    /\ mode = "agent" => LoopContinues(iteration)
    /\ iteration' = IF mode = "agent" THEN iteration + 1 ELSE iteration
    /\ chatCalls' = chatCalls + 1
    /\ lastSent' = currentMessages
    /\ newMessageSignals' = 0
    /\ UNCHANGED <<tools, cvars, mode, pc, currentMessages, previousMessages, responses,
                   allToolCalls, history, returned>>
    /\ UNCHANGED <<rvars, kvars, xvars>>

\* chat() rejects (a provider error): both execute functions let it propagate
ChatThrows ==
    /\ pc = "running"
    /\ mode = "agent" => LoopContinues(iteration)
    /\ iteration' = IF mode = "agent" THEN iteration + 1 ELSE iteration
    /\ chatCalls' = chatCalls + 1
    /\ lastSent' = currentMessages
    /\ newMessageSignals' = 0
    /\ pc' = "failed"
    /\ UNCHANGED <<tools, cvars, mode, currentMessages, previousMessages, responses,
                   allToolCalls, history, returned>>
    /\ UNCHANGED <<rvars, kvars, xvars>>

IdleChat ==
    /\ cpc = "idle"
    /\ useTools = TRUE
    /\ reqTools = NoRequest
    /\ pending = EmptyMap
    /\ intended = EmptyMap
    /\ pendingContent = 0
    /\ fullContent = <<>>
    /\ accumulatedToolCalls = EmptyMap
    /\ toolCalls = <<>>
    /\ cursor = 0
    /\ inflight = FALSE
    /\ toolCallResults = <<>>
    /\ events = <<>>
    /\ response = None
    /\ usage = NoUsage
    /\ usageSent = FALSE
    /\ prompt = <<>>
    /\ arrival = <<>>
    /\ messagesArg = <<>>
    /\ requests = 0

Init ==
    /\ tools = BuiltInRegistry
    /\ IdleRegistry
    /\ IdleCompactor
    /\ IdleOthers
    /\ IdleChat
    /\ mode \in {"chat", "agent"}
    /\ pc = "running"
    /\ previousMessages \in PreviousConversations
    /\ currentMessages = previousMessages \o <<UserMessage(UserInput, FALSE)>>
    /\ iteration = 0
    /\ responses = <<>>
    /\ allToolCalls = <<>>
    /\ chatCalls = 0
    /\ newMessageSignals = 0
    /\ history = <<>>
    /\ lastSent = <<>>
    /\ returned = None

Next ==
    \/ ChatModeStep
    \/ AgentStep
    \/ ChatThrows

Spec == Init /\ [][Next]_vars

(***************************************************************************)
(* Both views together: a single chat() call step by step, or a request    *)
(* handled by ChatMode or AgentMode.                                       *)
(***************************************************************************)
InitAll == InitChat \/ Init

NextAll == NextChat \/ Next

SpecAll == InitAll /\ [][NextAll]_vars

(***************************************************************************)
(* The tool registry: OpenAIClient's constructor and initializeMCPClients, *)
(* src/src/openai.ts:49-98. A tool is its name and the instance that was   *)
(* registered; both for loops are walked one registration at a time.       *)
(***************************************************************************)
Tool(name, instance) == [name |-> name, instance |-> instance]

\* sequences of at most n elements of S
SeqUpTo(S, n) == UNION {[1 .. m -> S] : m \in 0 .. n}

\* the tools argument of the constructor: any names, each tool its own instance
BuiltInLists ==
    { [k \in 1 .. Len(names) |-> Tool(names[k], <<"builtin", Digits[k + 1]>>)] :
        names \in SeqUpTo(builtInTools, MaxBuiltIn) }

\* this.mcpManager.createToolWrappers() in the given run: one wrapper per tool
\* of every connected server, under the tool's bare name (part_003:183-218)
McpToolLists(run) ==
    { [k \in 1 .. Len(names) |->
          Tool(names[k], <<"server", Digits[k + 1], "run", Digits[run + 1]>>)] :
        names \in SeqUpTo({web_search, mcp_tool}, MaxMcpTools) }

\* this.tools.set(tool.name, tool)
MapSet(map, tool) ==
    [n \in DOMAIN map \cup {tool.name} |->
        IF n = tool.name THEN tool.instance ELSE map[n]]

\* one pass of for (const tool of tools), lines 58-60
ConstructorRegister ==
    /\ rpc = "constructor"
    /\ toRegister # <<>>
    /\ tools' = MapSet(tools, Head(toRegister))
    /\ registered' = Append(registered, Head(toRegister))
    /\ toRegister' = Tail(toRegister)
    /\ UNCHANGED <<rpc, warnings, mcpRuns, cvars, ovars, kvars, xvars>>

\* the constructor returns, lines 62-67
ConstructorDone ==
    /\ rpc = "constructor"
    /\ toRegister = <<>>
    /\ rpc' = "ready"
    /\ UNCHANGED <<tools, toRegister, registered, warnings, mcpRuns, cvars, ovars, kvars, xvars>>

\* initializeMCPClients: mcpManager.initialize resolved, the wrappers are
\* created, lines 82-85
McpInitialized ==
    /\ rpc = "ready"
    /\ mcpRuns < MaxMcpRuns
    /\ mcpRuns' = mcpRuns + 1
    /\ toRegister' \in McpToolLists(mcpRuns')
    /\ rpc' = "mcp"
    /\ UNCHANGED <<tools, registered, warnings, cvars, ovars, kvars, xvars>>

\* initializeMCPClients: mcpManager.initialize rejected, the catch of line 95
McpInitializeFails ==
    /\ rpc = "ready"
    /\ mcpRuns < MaxMcpRuns
    /\ mcpRuns' = mcpRuns + 1
    /\ UNCHANGED <<tools, rpc, toRegister, registered, warnings, cvars, ovars, kvars, xvars>>

\* one pass of for (const tool of mcpTools), lines 86-94
McpRegister ==
    /\ rpc = "mcp"
    /\ toRegister # <<>>
    /\ warnings' = IF Head(toRegister).name \in DOMAIN tools
                   THEN Append(warnings, Head(toRegister).name)
                   ELSE warnings
    /\ tools' = MapSet(tools, Head(toRegister))
    /\ registered' = Append(registered, Head(toRegister))
    /\ toRegister' = Tail(toRegister)
    /\ UNCHANGED <<rpc, mcpRuns, cvars, ovars, kvars, xvars>>

\* the for loop of initializeMCPClients has ended
McpDone ==
    /\ rpc = "mcp"
    /\ toRegister = <<>>
    /\ rpc' = "ready"
    /\ UNCHANGED <<tools, toRegister, registered, warnings, mcpRuns, cvars, ovars, kvars, xvars>>

\* new OpenAIClient(config, tools) entered: this.tools = new Map()
InitRegistry ==
    /\ tools = EmptyMap
    /\ rpc = "constructor"
    /\ toRegister \in BuiltInLists
    /\ registered = <<>>
    /\ warnings = <<>>
    /\ mcpRuns = 0
    /\ IdleChat
    /\ IdleRequest
    /\ IdleCompactor
    /\ IdleOthers

NextRegistry ==
    \/ ConstructorRegister
    \/ ConstructorDone
    \/ McpInitialized
    \/ McpInitializeFails
    \/ McpRegister
    \/ McpDone

SpecRegistry == InitRegistry /\ [][NextRegistry]_vars

(***************************************************************************)
(* A chat() call while the MCP tools are discovered in the background:     *)
(* the constructor has returned without awaiting initializeMCPClients,     *)
(* src/src/openai.ts:62-67 and 80-98.                                      *)
(***************************************************************************)
\* the call is suspended at an await (the request, a chunk of the stream, a
\* tool's execute) or is not running, so a pending continuation can run
AtAwait == cpc # "executing" \/ inflight

RECURSIVE RegisterAll(_, _)
\* the for loop of lines 86-94 over the wrappers, run to its end
RegisterAll(map, list) ==
    IF list = <<>> THEN map ELSE RegisterAll(MapSet(map, Head(list)), Tail(list))

RECURSIVE WarnedNames(_, _)
\* the names the loop of lines 86-94 warns about: those it finds in the map,
\* put there before the loop or by an earlier pass of it
WarnedNames(map, list) ==
    IF list = <<>> THEN <<>>
    ELSE (IF Head(list).name \in DOMAIN map THEN <<Head(list).name>> ELSE <<>>)
            \o WarnedNames(MapSet(map, Head(list)), Tail(list))

\* await this.mcpManager.initialize resolves: the wrappers are created and all
\* registered before anything else runs, lines 82-94 (the event "registered"
\* marks the moment)
DiscoveryRegisters ==
    /\ rpc = "discovering"
    /\ AtAwait
    /\ tools' = RegisterAll(tools, toRegister)
    /\ registered' = registered \o toRegister
    /\ warnings' = warnings \o
                      SelectSeq([k \in 1 .. Len(toRegister) |-> toRegister[k].name],
                                LAMBDA n : n \in DOMAIN tools)
    /\ toRegister' = <<>>
    /\ rpc' = "ready"
    /\ events' = Append(events, Event("registered", NoId))
    /\ UNCHANGED <<cpc, useTools, reqTools, pending, intended, pendingContent,
                   fullContent, accumulatedToolCalls, toolCalls, cursor, inflight,
                   toolCallResults, response, usage, usageSent, prompt, arrival,
                   messagesArg, requests>>
    /\ UNCHANGED <<mcpRuns, ovars, kvars, xvars>>

\* new OpenAIClient(config, tools) has returned with the built-in tools, the
\* discovery of one server's tool is pending, chat() is entered
InitRace ==
    /\ tools = BuiltInRegistry
    /\ rpc = "discovering"
    /\ toRegister = <<Tool(mcp_tool, <<"server", "1", "run", "1">>)>>
    /\ registered = <<>>
    /\ warnings = <<>>
    /\ mcpRuns = 1
    /\ IdleCompactor
    /\ IdleOthers
    /\ cpc = "start"
    /\ useTools = TRUE
    /\ reqTools = NoRequest
    /\ pending = EmptyMap
    /\ intended = EmptyMap
    /\ pendingContent = 0
    /\ fullContent = <<>>
    /\ accumulatedToolCalls = EmptyMap
    /\ toolCalls = <<>>
    /\ cursor = 0
    /\ inflight = FALSE
    /\ toolCallResults = <<>>
    /\ events = <<>>
    /\ response = None
    /\ usage = NoUsage
    /\ usageSent = FALSE
    /\ prompt = <<>>
    /\ arrival = <<>>
    /\ messagesArg = <<PlainMessage("user", <<"question">>)>>
    /\ requests = 0
    /\ IdleRequest

NextRace ==
    \/ NextChat
    \/ DiscoveryRegisters

SpecRace == InitRace /\ [][NextRace]_vars

(***************************************************************************)
(* Properties of one chat() call (SpecChat).                               *)
(***************************************************************************)
StreamConsumed == cpc \in {"executing", "returned"}

CountEvents(ev) == Cardinality({k \in 1 .. Len(events) : events[k].ev = ev})

\* C2: for every tool-call index and every split of its name and argument text
\* into fragments, interleaved with other indexes and with content deltas, what
\* is accumulated is the in-order concatenation of the fragments delivered so
\* far, so at stream end name and arguments are the whole texts and the
\* arguments parse as the whole text does, whatever the split points.
C2_FragmentsConcatenateInOrder ==
    /\ cpc = "streaming" =>
         \A i \in DOMAIN accumulatedToolCalls :
            /\ i \in DOMAIN intended
            /\ accumulatedToolCalls[i].name \o pending[i].name = intended[i].name
            /\ accumulatedToolCalls[i].arguments \o pending[i].arguments
                 = intended[i].arguments
    /\ StreamConsumed =>
         /\ DOMAIN accumulatedToolCalls = DOMAIN intended
         /\ \A i \in DOMAIN intended :
               /\ accumulatedToolCalls[i].name = intended[i].name
               /\ accumulatedToolCalls[i].arguments = intended[i].arguments
               /\ JSONValid(accumulatedToolCalls[i].arguments)
                    = JSONValid(intended[i].arguments)
         /\ toolCalls = ObjectValues(intended)

\* two indexes, each part-way through name and arguments, with content between
C2_Witness ==
    /\ cpc = "streaming"
    /\ fullContent # <<>>
    /\ DOMAIN accumulatedToolCalls = {0, 1}
    /\ accumulatedToolCalls[0].name = <<"web_">> /\ pending[0].name = <<"search">>
    /\ accumulatedToolCalls[0].arguments = <<"{">> /\ pending[0].arguments = <<"}">>
    /\ accumulatedToolCalls[1].name = <<"web_">> /\ pending[1].name = <<"search">>
    /\ accumulatedToolCalls[1].arguments = <<"{">> /\ pending[1].arguments = <<"}">>

\* C3: a chat() call that finalizes n >= 1 tool calls returns messagesToAdd = one
\* assistant message with empty content and the raw call list, then n tool
\* messages, the i-th with the i-th call's id and the result text of that same
\* call, for every mix of known, unknown and failing tools.
C3_ToolMessagesCarryOwnResult ==
    (cpc = "returned" /\ Len(toolCalls) >= 1) =>
        LET m == response.messagesToAdd
            n == Len(toolCalls)
        IN  /\ Len(m) = n + 1
            /\ m[1].role = "assistant" /\ m[1].content = <<>> /\ m[1].tool_calls = toolCalls
            /\ \A i \in 1 .. n :
                 /\ m[i + 1].role = "tool"
                 /\ m[i + 1].tool_call_id = toolCalls[i].id
                 /\ (\E k \in 1 .. Len(events) :
                        events[k] = Event("resolved", toolCalls[i].id))
                      => m[i + 1].content = ResultText(toolCalls[i].id)
                 /\ \A j \in 1 .. n :
                      j # i => m[i + 1].content # ResultText(toolCalls[j].id)

\* C7: with useTools = FALSE the request carries no function schemas and no
\* tool's execute is invoked, whatever the provider streams.
C7_NoToolsWhenDisabled ==
    (~useTools /\ reqTools.sent) =>
        /\ ~reqTools.toolsDefined
        /\ reqTools.defs = {}
        /\ CountEvents("execute") = 0

\* C10: a streaming chat() call that returns has invoked onComplete exactly
\* once, after every tool execution of the call has settled; until it returns,
\* and when it fails with a provider error, onComplete has not been invoked.
C10_OnCompleteOnceAfterTools ==
    /\ cpc = "returned" =>
         /\ CountEvents("onComplete") = 1
         /\ \E c \in 1 .. Len(events) :
              /\ events[c].ev = "onComplete"
              /\ \A l \in (c + 1) .. Len(events) : events[l].ev = "onUsage"
              /\ \A k \in 1 .. Len(events) :
                   events[k].ev = "execute" =>
                      \E l \in (k + 1) .. (c - 1) :
                         events[l].ev \in Settlements /\ events[l].id = events[k].id
    /\ cpc # "returned" => CountEvents("onComplete") = 0

\* a call that ran two tools, one of them rejecting, and returned
C10_Witness ==
    /\ cpc = "returned"
    /\ CountEvents("execute") = 2
    /\ CountEvents("rejected") = 1
    /\ CountEvents("onComplete") = 1

(***************************************************************************)
(* Properties of one user request (Spec).                                  *)
(***************************************************************************)
LastResult == history[Len(history)]

RECURSIVE FlattenField(_, _)
\* the concatenation of field f of every response of h, in order
FlattenField(h, f) ==
    IF Len(h) = 0 THEN <<>> ELSE h[1][f] \o FlattenField(Tail(h), f)

ToolBearing(h) == Cardinality({k \in 1 .. Len(h) : Len(h[k].messagesToAdd) > 0})

\* the working list ends with an internal continuation message
Continued ==
    /\ currentMessages[Len(currentMessages)].role = "user"
    /\ currentMessages[Len(currentMessages)].isInternal

\* the last response carries a ToolCallResult named agent_done
DoneSignalled ==
    \E k \in 1 .. Len(LastResult.toolCalls) : LastResult.toolCalls[k].name = agent_done

\* the first response carried no messagesToAdd
TrivialExit == iteration = 1 /\ Len(LastResult.messagesToAdd) = 0

HasNotice == returned.content[Len(returned.content)] = MaxIterationsNotice[1]

C4_ToolMessagesFollowTheirCall ==
    pc # "idle" =>
      \A a \in (Len(previousMessages) + 2) .. Len(currentMessages) :
        LET m == currentMessages[a]
            n == Len(m.tool_calls)
        IN  /\ n > 0 =>
                 /\ m.role = "assistant"
                 /\ a + n <= Len(currentMessages)
                 /\ \A i \in 1 .. n : currentMessages[a + i].role = "tool"
                 /\ \A k \in 1 .. n :
                      Cardinality({i \in 1 .. n :
                          currentMessages[a + i].tool_call_id = m.tool_calls[k].id}) = 1
                 /\ a + n + 1 <= Len(currentMessages)
                      => currentMessages[a + n + 1].role # "tool"
            /\ m.role = "tool" =>
                 \E b \in (Len(previousMessages) + 2) .. (a - 1) :
                    /\ currentMessages[b].role = "assistant"
                    /\ \E k \in 1 .. Len(currentMessages[b].tool_calls) :
                         currentMessages[b].tool_calls[k].id = m.tool_call_id
                    /\ \A i \in (b + 1) .. a : currentMessages[i].role = "tool"

\* an agent run with a two-call round holding an unknown tool, then a
\* continuation message, then another tool round
C4_Witness ==
    /\ mode = "agent"
    /\ Len(history) >= 2
    /\ Len(history[1].messagesToAdd) = 3
    /\ Len(history[1].toolCalls) = 1
    /\ Len(history[2].messagesToAdd) = 2
    /\ Len(currentMessages) >= Len(previousMessages) + 1 + 3 + 1 + 2

C6_NoticeOnlyWhenExhausted ==
    (mode = "agent" /\ pc = "done") =>
        (HasNotice <=> (iteration = maxIterations /\ ~DoneSignalled /\ ~TrivialExit))

C9_ChatModeReturnsAllContent ==
    (mode = "chat" /\ pc = "done") =>
        /\ returned.content = FlattenField(history, "content")
        /\ returned.toolCalls = FlattenField(history, "toolCalls")

\* the events with this name that are about the call with this id
EventsOf(ev, id) == {k \in 1 .. Len(events) : events[k].ev = ev /\ events[k].id = id}

\* C11: in a streaming chat() call onToolCall is invoked exactly once for each
\* tool call whose tool is registered, whether the call succeeds, its tool
\* throws or its arguments are malformed, and for a call that is executed that
\* invocation precedes the start of execute.
C11_OnToolCallOncePerKnownCall ==
    cpc = "returned" =>
        \A i \in 1 .. Len(toolCalls) :
            ToolKnown(toolCalls[i]) =>
                /\ Cardinality(EventsOf("onToolCall", toolCalls[i].id)) = 1
                /\ \A e \in EventsOf("execute", toolCalls[i].id) :
                      \E k \in EventsOf("onToolCall", toolCalls[i].id) : k < e

\* C12: every streaming chat() call that completes without a provider error
\* has invoked onUsage at least once and returns a usage value: the provider's
\* counts when a chunk carried usage, otherwise the estimate ceil(chars/4) of
\* the prompt and of the response with their sum as total, with tool calls in
\* the response as well as without.
C12_UsageAlwaysReported ==
    cpc = "returned" =>
        /\ CountEvents("onUsage") >= 1
        /\ IF usageSent
           THEN usage = ProviderUsage
           ELSE /\ usage.source = "estimate"
                /\ usage.promptTokens = CeilDiv4(JoinedChars(prompt))
                /\ usage.completionTokens = CeilDiv4(Chars(fullContent))
                /\ usage.totalTokens = usage.promptTokens + usage.completionTokens

\* the calls of the turn whose tool is registered, in execution order
KnownCalls == SelectSeq(toolCalls, ToolKnown)

\* some event with this name is about the call with this id
HasEvent(ev, id) == EventsOf(ev, id) # {}

\* the loop of executeToolCalls or the return after it can take a step
ExecutionProceeds ==
    ENABLED (SkipUnknown \/ ArgumentsFail \/ StartExecute \/ SettleExecute
             \/ ReturnWithTools)

\* C13: when a tool's execute throws or rejects, chat() does not throw: the
\* call yields a ToolCallResult whose result starts with "Error: ", and every
\* later tool call of the turn is still attempted and gets its own result.
C13_ThrowingToolDoesNotAbortTurn ==
    /\ CountEvents("rejected") > 0 => cpc \in {"executing", "returned"}
    /\ cpc = "executing" => ExecutionProceeds
    /\ cpc = "returned" =>
          /\ Len(response.toolCalls) = Len(KnownCalls)
          /\ \A i \in 1 .. Len(KnownCalls) :
                /\ response.toolCalls[i].name = KnownCalls[i].name
                /\ HasEvent("onToolCall", KnownCalls[i].id)
                /\ HasEvent("rejected", KnownCalls[i].id) =>
                      response.toolCalls[i].result[1] = ErrorPrefix
                /\ HasEvent("resolved", KnownCalls[i].id) =>
                      response.toolCalls[i].result = ResultText(KnownCalls[i].id)
                /\ HasEvent("resolvedEmpty", KnownCalls[i].id) =>
                      response.toolCalls[i].result = <<>>

\* a turn returned in which the first call's execute threw and a later call's
\* execute resolved
C13_Witness ==
    /\ cpc = "returned"
    /\ Len(KnownCalls) >= 2
    /\ HasEvent("rejected", KnownCalls[1].id)
    /\ HasEvent("resolved", KnownCalls[2].id)
    /\ response.toolCalls[2].result = ResultText(KnownCalls[2].id)

\* C14: a call to a registered tool whose accumulated argument text is not
\* valid JSON: execute is not invoked, onToolCall is still invoked, the
\* ToolCallResult has args = {} and a result that starts with "Error: ", and
\* chat() does not throw.
C14_MalformedArgumentsReported ==
    /\ \A k \in 1 .. Len(events) :
          events[k].ev = "execute" =>
              \A i \in 1 .. Len(toolCalls) :
                  toolCalls[i].id = events[k].id => JSONValid(toolCalls[i].arguments)
    /\ cpc = "executing" => ExecutionProceeds
    /\ cpc = "returned" =>
          \A i \in 1 .. Len(KnownCalls) :
              ~JSONValid(KnownCalls[i].arguments) =>
                  /\ ~HasEvent("execute", KnownCalls[i].id)
                  /\ HasEvent("onToolCall", KnownCalls[i].id)
                  /\ response.toolCalls[i].name = KnownCalls[i].name
                  /\ response.toolCalls[i].args = EmptyObject
                  /\ response.toolCalls[i].result[1] = ErrorPrefix

\* a turn returned whose registered first call had truncated arguments
C14_Witness ==
    /\ cpc = "returned"
    /\ Len(KnownCalls) >= 1
    /\ KnownCalls[1].arguments = ArgsTruncated
    /\ response.toolCalls[1].args = EmptyObject
    /\ HasEvent("onToolCall", KnownCalls[1].id)

\* C15: a call whose name is not in the registry at execution time causes no
\* execute, no onToolCall and no entry in the returned toolCalls, and the
\* remaining calls of the turn are still processed.
C15_UnknownToolSkipped ==
    /\ \A k \in 1 .. Len(events) :
          events[k].ev \in {"execute", "onToolCall"} =>
              \A i \in 1 .. Len(toolCalls) :
                  toolCalls[i].id = events[k].id => ToolKnown(toolCalls[i])
    /\ cpc = "executing" => ExecutionProceeds
    /\ cpc = "returned" =>
          /\ Len(response.toolCalls) = Len(KnownCalls)
          /\ \A i \in 1 .. Len(KnownCalls) :
                /\ response.toolCalls[i].name = KnownCalls[i].name
                /\ HasEvent("onToolCall", KnownCalls[i].id)

\* a turn returned whose first call named an unknown tool and whose second call
\* was executed
C15_Witness ==
    /\ cpc = "returned"
    /\ Len(toolCalls) >= 2
    /\ ~ToolKnown(toolCalls[1])
    /\ ToolKnown(toolCalls[2])
    /\ HasEvent("execute", toolCalls[2].id)
    /\ Len(response.toolCalls) = 1

\* C16: if the provider request or stream fails, chat() rejects and returns no
\* ChatResponse, no tool has been executed for that call, the request is not
\* sent again, and ChatMode.execute / AgentMode.execute propagate the error
\* without another chat() call.
C16_ProviderErrorAbortsCall ==
    /\ cpc = "failed" =>
          /\ response = None
          /\ CountEvents("execute") = 0
          /\ CountEvents("onToolCall") = 0
          /\ toolCallResults = <<>>
          /\ ~ENABLED NextChat
    /\ chatCalls <= Len(history) + 1
    /\ chatCalls > Len(history) => pc = "failed"
    /\ pc = "failed" =>
          /\ returned = None
          /\ ~ENABLED Next

\* an agent request whose second chat() call rejected
C16_Witness ==
    /\ pc = "failed"
    /\ mode = "agent"
    /\ Len(history) = 1
    /\ chatCalls = 2

\* the positions in events of the tool executions that were started
ExecutePositions == {k \in 1 .. Len(events) : events[k].ev = "execute"}

\* the tool-call index whose call has this id
IndexOfId(id) == CHOOSE i \in DOMAIN intended : intended[i].id = id

\* the place of this tool-call index in the order of first arrival
ArrivalPosition(i) == CHOOSE n \in 1 .. Len(arrival) : arrival[n] = i

\* C17: within one chat() call the tools are executed one at a time, an execute
\* starting only after the previous one has settled, in the order in which
\* their calls first arrived in the stream, also when the stream delivers the
\* tool-call indexes out of ascending order.
C17_SequentialInArrivalOrder ==
    \A k1, k2 \in ExecutePositions :
        k1 < k2 =>
            /\ \E s \in k1 + 1 .. k2 - 1 :
                  /\ events[s].ev \in Settlements
                  /\ events[s].id = events[k1].id
            /\ ArrivalPosition(IndexOfId(events[k1].id))
                  < ArrivalPosition(IndexOfId(events[k2].id))

(***************************************************************************)
(* ConversationCompactor.compact, src/unnamed/part_006:34-122. A message   *)
(* is its role and its content; timestamps play no part.                   *)
(***************************************************************************)
\* toolMessages.slice(-5)
RecentToolCount == 5

\* a number below 100 as text
NumText(n) ==
    IF n < 10 THEN <<Digits[n + 1]>> ELSE <<Digits[(n \div 10) + 1], Digits[(n % 10) + 1]>>

\* the n-th message of a conversation: tool results, or user and assistant
\* taking turns
ToolMessage(n) == [role |-> "tool", content |-> <<"result ">> \o NumText(n)]
ConversationalMessage(n, c) ==
    [role |-> IF c % 2 = 1 THEN "user" ELSE "assistant",
     content |-> <<"message ">> \o NumText(n)]

\* c non-tool and t tool-role messages, in one of three orders: "each" puts a
\* tool message after each non-tool message while there are both
RECURSIVE Conversation(_, _, _, _, _)
Conversation(order, c, t, cn, n) ==
    IF c = 0 /\ t = 0 THEN <<>>
    ELSE IF c = 0 \/ (t > 0 /\ order = "toolsFirst") \/ (t > 0 /\ order = "each" /\ n % 2 = 0)
         THEN <<ToolMessage(n)>> \o Conversation(order, c, t - 1, cn, n + 1)
    ELSE <<ConversationalMessage(n, cn)>> \o Conversation(order, c - 1, t, cn + 1, n + 1)

Conversations ==
    { Conversation(order, c, t, 1, 1) :
        order \in {"toolsFirst", "toolsLast", "each"},
        c \in 0 .. MaxConversational, t \in 0 .. MaxToolMessages }

\* array.slice(begin) for an integer begin, negative counting from the end
SliceFrom(seq, begin) ==
    LET from == IF begin < 0
                THEN (IF Len(seq) + begin < 0 THEN 0 ELSE Len(seq) + begin)
                ELSE (IF begin > Len(seq) THEN Len(seq) ELSE begin)
    IN  SubSeq(seq, from + 1, Len(seq))

\* array.slice(0, end) for an integer end, negative counting from the end
SliceTo(seq, end) ==
    LET to == IF end < 0
              THEN (IF Len(seq) + end < 0 THEN 0 ELSE Len(seq) + end)
              ELSE (IF end > Len(seq) THEN Len(seq) ELSE end)
    IN  SubSeq(seq, 1, to)

IsToolMessage(msg) == msg.role = "tool"
IsConversational(msg) == msg.role # "tool"

\* messages.filter(msg => msg.role !== 'tool')
conversationMessages == SelectSeq(messages, IsConversational)
\* conversationMessages.slice(0, -keepRecentCount * 2)
messagesToCompact == SliceTo(conversationMessages, 0 - keepRecentCount * 2)
\* conversationMessages.slice(-keepRecentCount * 2)
recentMessages == SliceFrom(conversationMessages, 0 - keepRecentCount * 2)

\* RecentToolMessages keeping every tool message
AllToolMessages(msgs) == SelectSeq(msgs, IsToolMessage)

\* messages.filter(msg => msg.role === 'tool').slice(-5)
RecentToolMessages(msgs) == SliceFrom(SelectSeq(msgs, IsToolMessage), 0 - RecentToolCount)

SummaryHeader == "[Conversation Summary]\n"

\* what the summarization call may resolve with; chat() turns an empty
\* completion into 'No response content'
SummaryContents == {<<"a summary">>, NoResponseContent}

summaryMessage(content) == [role |-> "assistant", content |-> <<SummaryHeader>> \o content]

\* originalMessages.reduce((sum, msg) => sum + msg.content.length, 0)
RECURSIVE ContentLength(_)
ContentLength(msgs) ==
    IF Len(msgs) = 0 THEN 0 ELSE Chars(msgs[1].content) + ContentLength(Tail(msgs))

\* Math.round(n / 4) for n >= 0
RoundDiv4(n) == (n + 2) \div 4

\* ConversationCompactor.estimateTokensSaved, lines 117-122
estimateTokensSaved(originalMessages, summary) ==
    LET originalLength == ContentLength(originalMessages)
        summaryLength == Chars(summary.content)
        charsSaved == IF originalLength - summaryLength > 0
                      THEN originalLength - summaryLength ELSE 0
    IN  RoundDiv4(charsSaved)

\* the result that hands the input back, lines 40-45, 53-58 and 105-110
Uncompacted ==
    [compactedMessages |-> messages, tokensSaved |-> 0,
     originalCount |-> Len(messages), compactedCount |-> Len(messages)]

\* the result built from the summary, lines 80-101
Compacted(content) ==
    LET compactedMessages ==
            <<summaryMessage(content)>> \o RecentToolMessages(messages) \o recentMessages
    IN  [compactedMessages |-> compactedMessages,
         tokensSaved |-> estimateTokensSaved(messagesToCompact, summaryMessage(content)),
         originalCount |-> Len(messages),
         compactedCount |-> Len(compactedMessages)]

\* the two early returns, lines 38-46 and 52-59
CompactNothingToDo ==
    /\ compactPc = "start"
    /\ \/ Len(conversationMessages) <= keepRecentCount * 2
       \/ Len(messagesToCompact) = 0
    /\ compactResult' = Uncompacted
    /\ compactPc' = "returned"
    /\ UNCHANGED <<messages, keepRecentCount, summaryCalls, summaryOutcome, compactions>>
    /\ UNCHANGED <<tools, cvars, ovars, rvars, xvars>>

\* this.client.chat([...], false) is called and awaited, lines 66-77
CompactSummarize ==
    /\ compactPc = "start"
    /\ ~(Len(conversationMessages) <= keepRecentCount * 2)
    /\ ~(Len(messagesToCompact) = 0)
    /\ summaryCalls' = summaryCalls + 1
    /\ compactPc' = "summarizing"
    /\ UNCHANGED <<messages, keepRecentCount, compactResult, summaryOutcome, compactions>>
    /\ UNCHANGED <<tools, cvars, ovars, rvars, xvars>>

\* the summarization call resolves, lines 79-101
SummaryResolves ==
    /\ compactPc = "summarizing"
    /\ \E content \in SummaryContents : compactResult' = Compacted(content)
    /\ summaryOutcome' = "resolved"
    /\ compactPc' = "returned"
    /\ UNCHANGED <<messages, keepRecentCount, summaryCalls, compactions>>
    /\ UNCHANGED <<tools, cvars, ovars, rvars, xvars>>

\* SummaryRejects handing back only the recent messages
SummaryRejectsKeepsRecent ==
    /\ compactPc = "summarizing"
    /\ compactResult' = [compactedMessages |-> recentMessages, tokensSaved |-> 0,
                         originalCount |-> Len(messages),
                         compactedCount |-> Len(recentMessages)]
    /\ summaryOutcome' = "rejected"
    /\ compactPc' = "returned"
    /\ UNCHANGED <<messages, keepRecentCount, summaryCalls, compactions>>
    /\ UNCHANGED <<tools, cvars, ovars, rvars, xvars>>

\* the summarization call rejects, lines 102-111
SummaryRejects ==
    /\ compactPc = "summarizing"
    /\ compactResult' = Uncompacted
    /\ summaryOutcome' = "rejected"
    /\ compactPc' = "returned"
    /\ UNCHANGED <<messages, keepRecentCount, summaryCalls, compactions>>
    /\ UNCHANGED <<tools, cvars, ovars, rvars, xvars>>

\* compact is called again, on the messages the last call returned
CompactAgain ==
    /\ compactPc = "returned"
    /\ compactions < MaxCompactions
    /\ messages' = compactResult.compactedMessages
    /\ compactions' = compactions + 1
    /\ compactPc' = "start"
    /\ compactResult' = NoCompactionResult
    /\ summaryCalls' = 0
    /\ summaryOutcome' = "none"
    /\ UNCHANGED keepRecentCount
    /\ UNCHANGED <<tools, cvars, ovars, rvars, xvars>>

InitCompact ==
    /\ messages \in Conversations
    /\ keepRecentCount \in 0 .. MaxKeep
    /\ compactPc = "start"
    /\ compactResult = NoCompactionResult
    /\ summaryCalls = 0
    /\ summaryOutcome = "none"
    /\ compactions = 1
    /\ tools = BuiltInRegistry
    /\ IdleRegistry
    /\ IdleChat
    /\ IdleRequest
    /\ IdleOthers

NextCompact ==
    \/ CompactNothingToDo
    \/ CompactSummarize
    \/ SummaryResolves
    \/ SummaryRejects
    \/ CompactAgain

SpecCompact == InitCompact /\ [][NextCompact]_vars

(***************************************************************************)
(* MCPClientManager.initialize, connectToServer and disconnect,            *)
(* src/unnamed/part_003:97-176. initialize is called once per run of       *)
(* OpenAIClient.initializeMCPClients; its connectToServer calls run        *)
(* concurrently, with each other and with disconnect.                      *)
(***************************************************************************)
ServerNames == {"alpha", "beta"}

\* what a server's setup does: all of it works, or the transport cannot be
\* created, or the handshake fails, or the tool listing fails
HealthKinds == {"ok", "noTransport", "noHandshake", "noList"}

\* the tools a server advertises in toolsResponse.tools
ServerTools(server) == IF server = "alpha" THEN {mcp_tool} ELSE {mcp_tool, web_search}

\* the client connectToServer creates for this server in this initialize call
Connection(run, server) == <<server, "#", Digits[run + 1]>>

\* the server a connection goes to
ServerOf(conn) == conn[1]

\* `${serverName}:${tool.name}`
ToolKey(server, name) == <<server, ":">> \o name

MCPClientTool(server, name, conn) == [name |-> name, serverName |-> server, client |-> conn]

\* map with the entries of one more function, later entries winning
MapMerge(map, more) ==
    [k \in DOMAIN map \cup DOMAIN more |-> IF k \in DOMAIN more THEN more[k] ELSE map[k]]

\* the connections close() has been called on
Closed == {entry.conn : entry \in closeLog}

\* where a connectToServer call stands at its first await
FirstAwait(server) == IF health[server] = "noTransport" THEN "failed" ELSE "connecting"

\* initialize(config) is called: every connectToServer runs up to its first
\* await, where creating the transport may already have thrown, lines 101-127.
\* A further call comes from OpenAIClient.create (openai.ts:75-76), in the same
\* turn of the event loop as the constructor's call.
Initialize(run) ==
    /\ initState[run] = "notStarted"
    /\ \A r \in 1 .. run - 1 :
          /\ initState[r] = "running"
          /\ \A s \in mcpServers : attempts[Connection(r, s)] = FirstAwait(s)
    /\ initState' = [initState EXCEPT ![run] = "running"]
    /\ attempts' = MapMerge(attempts,
                       [conn \in {Connection(run, s) : s \in mcpServers} |->
                           FirstAwait(ServerOf(conn))])
    /\ UNCHANGED <<mcpServers, health, clients, managerTools, closeLog, dpc,
                   disconnectCalls>>
    /\ UNCHANGED <<tools, cvars, ovars, rvars, kvars, yvars>>

\* await client.connect(transport) resolves: this.clients.set, listTools is
\* called, lines 130-136
ConnectResolves(conn) ==
    /\ conn \in DOMAIN attempts
    /\ attempts[conn] = "connecting"
    /\ health[ServerOf(conn)] # "noHandshake"
    /\ clients' = MapMerge(clients, [s \in {ServerOf(conn)} |-> conn])
    /\ attempts' = [attempts EXCEPT ![conn] = "listing"]
    /\ UNCHANGED <<mcpServers, health, initState, managerTools, closeLog, dpc,
                   disconnectCalls>>
    /\ UNCHANGED <<tools, cvars, ovars, rvars, kvars, yvars>>

\* ConnectRejects taking the other connectToServer calls of the initialize
\* call down with it
ConnectRejectsAbortsAll(conn) ==
    /\ conn \in DOMAIN attempts
    /\ attempts[conn] = "connecting"
    /\ health[ServerOf(conn)] = "noHandshake"
    /\ attempts' = [c \in DOMAIN attempts |->
                       IF c[3] = conn[3] /\ attempts[c] \in {"connecting", "listing"}
                       THEN "failed" ELSE attempts[c]]
    /\ UNCHANGED <<mcpServers, health, initState, clients, managerTools, closeLog, dpc,
                   disconnectCalls>>
    /\ UNCHANGED <<tools, cvars, ovars, rvars, kvars, yvars>>

\* await client.connect(transport) rejects: the catch of line 155
ConnectRejects(conn) ==
    /\ conn \in DOMAIN attempts
    /\ attempts[conn] = "connecting"
    /\ health[ServerOf(conn)] = "noHandshake"
    /\ attempts' = [attempts EXCEPT ![conn] = "failed"]
    /\ UNCHANGED <<mcpServers, health, initState, clients, managerTools, closeLog, dpc,
                   disconnectCalls>>
    /\ UNCHANGED <<tools, cvars, ovars, rvars, kvars, yvars>>

\* await client.listTools() resolves: every tool of the response is put in
\* this.tools, lines 139-152; a client that has been closed lists nothing
ListResolves(conn) ==
    /\ conn \in DOMAIN attempts
    /\ attempts[conn] = "listing"
    /\ health[ServerOf(conn)] # "noList"
    /\ conn \notin Closed
    /\ managerTools' =
          MapMerge(managerTools,
                   [key \in {ToolKey(ServerOf(conn), n) : n \in ServerTools(ServerOf(conn))} |->
                       MCPClientTool(ServerOf(conn), SubSeq(key, 3, Len(key)), conn)])
    /\ attempts' = [attempts EXCEPT ![conn] = "done"]
    /\ UNCHANGED <<mcpServers, health, initState, clients, closeLog, dpc, disconnectCalls>>
    /\ UNCHANGED <<tools, cvars, ovars, rvars, kvars, yvars>>

\* await client.listTools() rejects, because the server fails to list or
\* because the client has been closed meanwhile: the catch of line 155
ListRejects(conn) ==
    /\ conn \in DOMAIN attempts
    /\ attempts[conn] = "listing"
    /\ health[ServerOf(conn)] = "noList" \/ conn \in Closed
    /\ attempts' = [attempts EXCEPT ![conn] = "listFailed"]
    /\ UNCHANGED <<mcpServers, health, initState, clients, managerTools, closeLog, dpc,
                   disconnectCalls>>
    /\ UNCHANGED <<tools, cvars, ovars, rvars, kvars, yvars>>

\* InitializeResolves resolving as soon as one connectToServer has settled
InitializeResolvesOnFirst(run) ==
    /\ initState[run] = "running"
    /\ \E s \in mcpServers :
          attempts[Connection(run, s)] \in {"done", "failed", "listFailed"}
    /\ initState' = [initState EXCEPT ![run] = "resolved"]
    /\ UNCHANGED <<mcpServers, health, attempts, clients, managerTools, closeLog, dpc,
                   disconnectCalls>>
    /\ UNCHANGED <<tools, cvars, ovars, rvars, kvars, yvars>>

\* await Promise.allSettled(connectionPromises) resolves, line 112
InitializeResolves(run) ==
    /\ initState[run] = "running"
    /\ \A s \in mcpServers :
          attempts[Connection(run, s)] \in {"done", "failed", "listFailed"}
    /\ initState' = [initState EXCEPT ![run] = "resolved"]
    /\ UNCHANGED <<mcpServers, health, attempts, clients, managerTools, closeLog, dpc,
                   disconnectCalls>>
    /\ UNCHANGED <<tools, cvars, ovars, rvars, kvars, yvars>>

\* disconnect() is called: client.close() is called on every entry of
\* this.clients, lines 160-170
DisconnectCalled ==
    /\ dpc = "idle"
    /\ disconnectCalls < MaxDisconnects
    /\ DOMAIN clients # {}
    /\ closeLog' = closeLog \cup
          {[call |-> disconnectCalls + 1, conn |-> clients[s]] : s \in DOMAIN clients}
    /\ dpc' = "closing"
    /\ UNCHANGED <<mcpServers, health, initState, attempts, clients, managerTools,
                   disconnectCalls>>
    /\ UNCHANGED <<tools, cvars, ovars, rvars, kvars, yvars>>

\* disconnect() is called while this.clients is empty: there is no close to
\* wait for, the maps are cleared before anything else can happen
DisconnectNothingOpen ==
    /\ dpc = "idle"
    /\ disconnectCalls < MaxDisconnects
    /\ DOMAIN clients = {}
    /\ managerTools' = EmptyMap
    /\ disconnectCalls' = disconnectCalls + 1
    /\ UNCHANGED <<mcpServers, health, initState, attempts, clients, closeLog, dpc>>
    /\ UNCHANGED <<tools, cvars, ovars, rvars, kvars, yvars>>

\* every client.close() has settled, by resolving or by a rejection that is
\* caught and logged; await Promise.allSettled resolves and both maps are
\* cleared, lines 164-175
DisconnectResolves ==
    /\ dpc = "closing"
    /\ clients' = EmptyMap
    /\ managerTools' = EmptyMap
    /\ dpc' = "idle"
    /\ disconnectCalls' = disconnectCalls + 1
    /\ UNCHANGED <<mcpServers, health, initState, attempts, closeLog>>
    /\ UNCHANGED <<tools, cvars, ovars, rvars, kvars, yvars>>

\* new MCPClientManager() with a configuration
InitMcp ==
    /\ mcpServers \in SUBSET ServerNames
    /\ health \in [mcpServers -> HealthKinds]
    /\ initState = [r \in 1 .. MaxMcpRuns |-> "notStarted"]
    /\ attempts = EmptyMap
    /\ clients = EmptyMap
    /\ managerTools = EmptyMap
    /\ closeLog = {}
    /\ dpc = "idle"
    /\ disconnectCalls = 0
    /\ tools = BuiltInRegistry
    /\ IdleRegistry
    /\ IdleChat
    /\ IdleRequest
    /\ IdleCompactor
    /\ IdleUi
    /\ IdleSchema
    /\ IdleJsonSchema
    /\ IdleProviderRequest

AllConnections == {Connection(r, s) : r \in 1 .. MaxMcpRuns, s \in ServerNames}

NextMcp ==
    \/ \E run \in 1 .. MaxMcpRuns : Initialize(run)
    \/ \E conn \in AllConnections : ConnectResolves(conn)
    \/ \E conn \in AllConnections : ConnectRejects(conn)
    \/ \E conn \in AllConnections : ListResolves(conn)
    \/ \E conn \in AllConnections : ListRejects(conn)
    \/ \E run \in 1 .. MaxMcpRuns : InitializeResolves(run)
    \/ DisconnectCalled
    \/ DisconnectNothingOpen
    \/ DisconnectResolves

SpecMcp == InitMcp /\ [][NextMcp]_vars

\* the manager while disconnect is not called
NextMcpInitialize ==
    \/ \E run \in 1 .. MaxMcpRuns : Initialize(run)
    \/ \E conn \in AllConnections : ConnectResolves(conn)
    \/ \E conn \in AllConnections : ConnectRejects(conn)
    \/ \E conn \in AllConnections : ListResolves(conn)
    \/ \E conn \in AllConnections : ListRejects(conn)
    \/ \E run \in 1 .. MaxMcpRuns : InitializeResolves(run)

SpecMcpInitialize == InitMcp /\ [][NextMcpInitialize]_vars

(***************************************************************************)
(* OpenAIClient.initializeMCPClients over the manager: the wrappers are    *)
(* registered once mcpManager.initialize has resolved,                     *)
(* src/src/openai.ts:80-98 and src/unnamed/part_003:183-218.               *)
(***************************************************************************)
\* the orders the entries of the manager's tools map may stand in: a Map keeps
\* insertion order, which the model of the manager does not record
WrapperOrders ==
    {order \in [1 .. Cardinality(DOMAIN managerTools) -> DOMAIN managerTools] :
        \A i, j \in DOMAIN order : order[i] = order[j] => i = j}

\* createToolWrappers(): one tool per entry of this.tools, named by the bare
\* tool name and calling the entry's client, part_003:183-218
createToolWrappers(order) ==
    [k \in DOMAIN order |->
        Tool(managerTools[order[k]].name, <<"mcp ">> \o managerTools[order[k]].client)]

\* the continuation of initializeMCPClients after await initialize: the
\* wrappers are created and all registered in one synchronous loop, a conflict
\* warning for each name found present, openai.ts:84-94
RegisterWrappers(run) ==
    /\ initState[run] = "resolved"
    /\ \E order \in WrapperOrders :
         LET mcpTools == createToolWrappers(order) IN
         /\ tools' = RegisterAll(tools, mcpTools)
         /\ registered' = registered \o mcpTools
         /\ warnings' = warnings \o WarnedNames(tools, mcpTools)
    /\ initState' = [initState EXCEPT ![run] = "registered"]
    /\ mcpRuns' = mcpRuns + 1
    /\ UNCHANGED <<mcpServers, health, attempts, clients, managerTools, closeLog, dpc,
                   disconnectCalls>>
    /\ UNCHANGED <<rpc, toRegister, cvars, ovars, kvars, yvars>>

NextDiscovery ==
    \/ NextMcpInitialize
    \/ \E run \in 1 .. MaxMcpRuns : RegisterWrappers(run)

SpecDiscovery == InitMcp /\ [][NextDiscovery]_vars

(***************************************************************************)
(* The chat screen: ChatApp of src/src/chat.tsx:60-360. The message list   *)
(* is modelled by its length; an execute, a timer and a compaction carry   *)
(* the values their closures captured.                                     *)
(***************************************************************************)
\* keepRecentCount: number = 3, the default of compact (part_006:34)
DefaultKeepRecentCount == 3
\* messages.length > 6, the least list the automatic compaction works on
AutoCompactMinimum == 6

\* dispatch(addMessage(...)) and its kin: one more message
AddMessage(n) == IF n < MaxUiMessages THEN n + 1 ELSE n

\* the length of compactor.compact(messages).compactedMessages for a list of
\* n user and assistant messages: the list itself up to twice the default
\* keepRecentCount, else the summary and the recent messages
CompactedLength(n) ==
    IF n <= DefaultKeepRecentCount * 2 THEN n ELSE 1 + DefaultKeepRecentCount * 2

\* if (hasActiveCommandJSX || activeCommand.type): the command gets the keys
CommandActive == activeCommand # "none"

\* the last branch of useInput is reached
MainInput == ~CommandActive /\ ~showCommandSelector

\* sequence s without its element i
RemoveAt(s, i) == SubSeq(s, 1, i - 1) \o SubSeq(s, i + 1, Len(s))

\* the awaited part of performCompaction begun on a list of n messages,
\* lines 80-84
PerformCompactionStarts(n, auto) ==
    IF n = 0
    THEN UNCHANGED <<isLoading, compacting>>
    ELSE /\ isLoading' = TRUE
         /\ compacting' = Append(compacting, [src |-> n, auto |-> auto])

\* a key other than "/" in the main input: appendToInput
TypeChar ==
    /\ MainInput
    /\ uiInput < MaxInput
    /\ uiInput' = uiInput + 1
    /\ UNCHANGED <<isLoading, showCommandSelector, activeCommand, uiMode, chatMessages,
                   lowContext, running, timers, compacting, replacedWhileRunning>>
    /\ UNCHANGED <<tools, cvars, ovars, rvars, kvars, mvars, wvars>>

\* "/" in the main input: the command selector opens, lines 350-352
TypeSlash ==
    /\ MainInput
    /\ showCommandSelector' = TRUE
    /\ uiInput' = 0
    /\ UNCHANGED <<isLoading, activeCommand, uiMode, chatMessages, lowContext, running,
                   timers, compacting, replacedWhileRunning>>
    /\ UNCHANGED <<tools, cvars, ovars, rvars, kvars, mvars, wvars>>

\* shift+tab in the main input: toggleMode
ToggleMode ==
    /\ MainInput
    /\ uiMode' = IF uiMode = "CHAT" THEN "AGENT" ELSE "CHAT"
    /\ UNCHANGED <<uiInput, isLoading, showCommandSelector, activeCommand, chatMessages,
                   lowContext, running, timers, compacting, replacedWhileRunning>>
    /\ UNCHANGED <<tools, cvars, ovars, rvars, kvars, mvars, wvars>>

\* escape in the command selector: handleCommandCancel
SelectorCancel ==
    /\ ~CommandActive
    /\ showCommandSelector
    /\ showCommandSelector' = FALSE
    /\ uiInput' = 0
    /\ UNCHANGED <<isLoading, activeCommand, uiMode, chatMessages, lowContext, running,
                   timers, compacting, replacedWhileRunning>>
    /\ UNCHANGED <<tools, cvars, ovars, rvars, kvars, mvars, wvars>>

\* return in the command selector on "compact": handleCommandSelect up to the
\* await inside performCompaction, lines 229-240 and 79-84
SelectCompact ==
    /\ ~CommandActive
    /\ showCommandSelector
    /\ showCommandSelector' = FALSE
    /\ uiInput' = 0
    /\ Len(compacting) < MaxCompacting
    /\ PerformCompactionStarts(chatMessages, FALSE)
    /\ UNCHANGED <<activeCommand, uiMode, chatMessages, lowContext, running, timers,
                   replacedWhileRunning>>
    /\ UNCHANGED <<tools, cvars, ovars, rvars, kvars, mvars, wvars>>

\* compactor.compact resolved: setMessages, the result is shown, the usage is
\* cleared, loading ends, lines 84-104; the automatic compaction then adds
\* its closing message, lines 145-149
CompactResolves ==
    /\ \E i \in 1 .. Len(compacting) :
         /\ chatMessages' = IF compacting[i].auto
                             THEN AddMessage(CompactedLength(compacting[i].src))
                             ELSE CompactedLength(compacting[i].src)
         /\ compacting' = RemoveAt(compacting, i)
    /\ replacedWhileRunning' = (replacedWhileRunning \/ running # <<>>)
    /\ activeCommand' = "compact"
    /\ lowContext' = FALSE
    /\ isLoading' = FALSE
    /\ UNCHANGED <<uiInput, showCommandSelector, uiMode, running, timers>>
    /\ UNCHANGED <<tools, cvars, ovars, rvars, kvars, mvars, wvars>>

\* compactor.compact rejected: the catch adds a message, loading ends,
\* lines 95-104
CompactRejects ==
    /\ \E i \in 1 .. Len(compacting) :
         /\ chatMessages' = IF compacting[i].auto
                             THEN AddMessage(AddMessage(chatMessages))
                             ELSE AddMessage(chatMessages)
         /\ compacting' = RemoveAt(compacting, i)
    /\ isLoading' = FALSE
    /\ UNCHANGED <<uiInput, showCommandSelector, activeCommand, uiMode, lowContext,
                   running, timers, replacedWhileRunning>>
    /\ UNCHANGED <<tools, cvars, ovars, rvars, kvars, mvars, wvars>>

\* escape while a command is shown: handleCommandExit
CommandExit ==
    /\ CommandActive
    /\ activeCommand' = "none"
    /\ UNCHANGED <<uiInput, isLoading, showCommandSelector, uiMode, chatMessages,
                   lowContext, running, timers, compacting, replacedWhileRunning>>
    /\ UNCHANGED <<tools, cvars, ovars, rvars, kvars, mvars, wvars>>

\* checkAutoCompactionActual as the handleSubmit of this render holds it,
\* lines 137-151: what it will do when called, compact the list of this render
\* (src) or, its condition being false, nothing
CheckAutoCompaction ==
    IF lowContext /\ chatMessages > AutoCompactMinimum
    THEN [compacts |-> TRUE, src |-> chatMessages]
    ELSE [compacts |-> FALSE, src |-> 0]

\* return in the main input: handleSubmit up to the await of execute,
\* lines 154-207
Submit ==
    /\ MainInput
    /\ ~(uiInput = 0 \/ isLoading \/ showCommandSelector)
    /\ Len(running) < MaxExecutes
    /\ uiInput' = 0
    /\ chatMessages' = AddMessage(AddMessage(chatMessages))
    /\ isLoading' = TRUE
    /\ running' = Append(running, [auto |-> CheckAutoCompaction, mode |-> uiMode])
    /\ UNCHANGED <<showCommandSelector, activeCommand, uiMode, lowContext, timers,
                   compacting, replacedWhileRunning>>
    /\ UNCHANGED <<tools, cvars, ovars, rvars, kvars, mvars, wvars>>

\* onUsage of handleSubmit's callbacks, lines 184-188
OnUsage(run) ==
    /\ lowContext' \in BOOLEAN
    /\ timers' = Append(timers, run.auto)

\* an iteration of AgentMode.execute answers without tool calls and reports
\* its usage; the run goes on with the next iteration
UsageReported ==
    /\ Len(timers) < MaxTimers
    /\ \E i \in 1 .. Len(running) :
         /\ running[i].mode = "AGENT"
         /\ OnUsage(running[i])
    /\ UNCHANGED <<uiInput, isLoading, showCommandSelector, activeCommand, uiMode,
                   chatMessages, running, compacting, replacedWhileRunning>>
    /\ UNCHANGED <<tools, cvars, ovars, rvars, kvars, mvars, wvars>>

\* execute settles: its last chat() call reported its usage or not, it
\* resolved or it rejected (the catch adds a message), loading ends,
\* lines 191-213
ExecuteSettles ==
    /\ \E i \in 1 .. Len(running) :
         /\ running' = RemoveAt(running, i)
         /\ \/ /\ Len(timers) < MaxTimers
               /\ OnUsage(running[i])
               /\ UNCHANGED chatMessages
            \/ /\ UNCHANGED <<lowContext, timers>>
               /\ chatMessages' \in {chatMessages, AddMessage(chatMessages)}
    /\ isLoading' = FALSE
    /\ UNCHANGED <<uiInput, showCommandSelector, activeCommand, uiMode, compacting,
                   replacedWhileRunning>>
    /\ UNCHANGED <<tools, cvars, ovars, rvars, kvars, mvars, wvars>>

\* the timer of line 187 fires: the checkAutoCompactionActual it holds runs
TimerFires ==
    /\ timers # <<>>
    /\ Len(compacting) < MaxCompacting
    /\ timers' = Tail(timers)
    /\ IF Head(timers).compacts
       THEN /\ chatMessages' = AddMessage(chatMessages)
            /\ PerformCompactionStarts(Head(timers).src, TRUE)
       ELSE UNCHANGED <<chatMessages, isLoading, compacting>>
    /\ UNCHANGED <<uiInput, showCommandSelector, activeCommand, uiMode, lowContext,
                   running, replacedWhileRunning>>
    /\ UNCHANGED <<tools, cvars, ovars, rvars, kvars, mvars, wvars>>

\* the screen is mounted on a conversation of some length
InitUi ==
    /\ tools = BuiltInRegistry
    /\ IdleRegistry
    /\ IdleCompactor
    /\ IdleMcp
    /\ IdleSchema
    /\ IdleJsonSchema
    /\ IdleProviderRequest
    /\ IdleChat
    /\ IdleRequest
    /\ uiInput = 0
    /\ isLoading = FALSE
    /\ showCommandSelector = FALSE
    /\ activeCommand = "none"
    /\ uiMode = "CHAT"
    /\ chatMessages = 0
    /\ lowContext = FALSE
    /\ running = <<>>
    /\ timers = <<>>
    /\ compacting = <<>>
    /\ replacedWhileRunning = FALSE

NextUi ==
    \/ TypeChar
    \/ TypeSlash
    \/ ToggleMode
    \/ SelectorCancel
    \/ SelectCompact
    \/ CompactResolves
    \/ CompactRejects
    \/ CommandExit
    \/ Submit
    \/ UsageReported
    \/ ExecuteSettles
    \/ TimerFires

SpecUi == InitUi /\ [][NextUi]_vars

(***************************************************************************)
(* The schema bridge to the provider: zodSchemaToOpenAIProperty, in the    *)
(* copy openai.ts imports, src/src/utils/zodToOpenAI.ts:25-150, and in the *)
(* copy of src/unnamed/part_004:25-171. A zod schema is a tree of records  *)
(* named by their class; an OpenAIProperty has type as the list of its     *)
(* type names (one name for a plain string).                               *)
(***************************************************************************)
ZodString == [kind |-> "ZodString"]
ZodNumber == [kind |-> "ZodNumber"]
\* a class neither copy handles
ZodRecord == [kind |-> "ZodRecord"]
ZodOptional(inner) == [kind |-> "ZodOptional", inner |-> inner]
ZodNullable(inner) == [kind |-> "ZodNullable", inner |-> inner]
ZodDefault(inner) == [kind |-> "ZodDefault", inner |-> inner]
ZodArray(element) == [kind |-> "ZodArray", element |-> element]
ZodBoolean == [kind |-> "ZodBoolean"]
ZodEnum == [kind |-> "ZodEnum"]
ZodObject(shape) == [kind |-> "ZodObject", shape |-> shape]

NoItems == [type |-> <<>>]

\* { type } and the fields a conversion may add to it
Property(type) ==
    [type |-> type, properties |-> EmptyMap, required |-> {}, items |-> NoItems,
     default |-> FALSE, enum |-> FALSE]

\* { ...innerProperty, type: [...type, 'null'] }
WithNull(innerProperty) == [innerProperty EXCEPT !.type = Append(@, "null")]

RECURSIVE zodSchemaToOpenAIProperty(_)
\* src/src/utils/zodToOpenAI.ts:25-150
zodSchemaToOpenAIProperty(s) ==
    CASE s.kind = "ZodObject" ->
           [Property(<<"object">>) EXCEPT
              !.properties =
                 [key \in DOMAIN s.shape |->
                    IF s.shape[key].kind \in {"ZodOptional", "ZodDefault"}
                    THEN WithNull(zodSchemaToOpenAIProperty(s.shape[key]))
                    ELSE zodSchemaToOpenAIProperty(s.shape[key])],
              !.required = DOMAIN s.shape]
      [] s.kind = "ZodString" -> Property(<<"string">>)
      [] s.kind = "ZodNumber" -> Property(<<"number">>)
      [] s.kind = "ZodBoolean" -> Property(<<"boolean">>)
      [] s.kind = "ZodArray" ->
           [Property(<<"array">>) EXCEPT !.items = zodSchemaToOpenAIProperty(s.element)]
      [] s.kind = "ZodEnum" -> [Property(<<"string">>) EXCEPT !.enum = TRUE]
      [] s.kind = "ZodOptional" -> zodSchemaToOpenAIProperty(s.inner)
      [] s.kind = "ZodDefault" ->
           [zodSchemaToOpenAIProperty(s.inner) EXCEPT !.default = TRUE]
      [] OTHER -> Property(<<"string">>)

RECURSIVE zodSchemaToOpenAIProperty_part_004(_)
\* src/unnamed/part_004:25-171
zodSchemaToOpenAIProperty_part_004(s) ==
    CASE s.kind = "ZodObject" ->
           [Property(<<"object">>) EXCEPT
              !.properties =
                 [key \in DOMAIN s.shape |->
                    IF s.shape[key].kind \in {"ZodOptional", "ZodNullable"}
                    THEN WithNull(zodSchemaToOpenAIProperty_part_004(s.shape[key].inner))
                    ELSE zodSchemaToOpenAIProperty_part_004(s.shape[key])],
              !.required = DOMAIN s.shape]
      [] s.kind = "ZodString" -> Property(<<"string">>)
      [] s.kind = "ZodNumber" -> Property(<<"number">>)
      [] s.kind = "ZodBoolean" -> Property(<<"boolean">>)
      [] s.kind = "ZodArray" ->
           [Property(<<"array">>) EXCEPT
              !.items = zodSchemaToOpenAIProperty_part_004(s.element)]
      [] s.kind = "ZodEnum" -> [Property(<<"string">>) EXCEPT !.enum = TRUE]
      [] s.kind = "ZodOptional" -> zodSchemaToOpenAIProperty_part_004(s.inner)
      [] s.kind = "ZodNullable" -> WithNull(zodSchemaToOpenAIProperty_part_004(s.inner))
      [] s.kind = "ZodDefault" ->
           [zodSchemaToOpenAIProperty_part_004(s.inner) EXCEPT !.default = TRUE]
      [] OTHER -> Property(<<"string">>)

Converters == {"utils/zodToOpenAI.ts", "part_004"}

RECURSIVE Wrapped(_, _)
\* the schemas of S under at most n wrappers
Wrapped(S, n) ==
    IF n = 0 THEN S
    ELSE LET W == Wrapped(S, n - 1)
         IN  W \cup {ZodOptional(w) : w \in W} \cup {ZodNullable(w) : w \in W}
               \cup {ZodDefault(w) : w \in W}

SchemaKeys == <<"query", "limit", "filter", "page">>

\* what a field of the top object may be: a plain or unhandled type, an array,
\* an object with one field, each under wrappers
FieldSchemas ==
    Wrapped({ZodString, ZodNumber, ZodRecord}, MaxWrap)
      \cup Wrapped({ZodArray(ZodString)}, 1)
      \cup Wrapped({ZodObject([k \in {"inner"} |-> f]) :
                      f \in Wrapped({ZodString}, 1)}, 1)

\* the parameter schemas of a tool: objects of one to MaxKeys fields
ToolSchemas ==
    UNION { {ZodObject(shape) : shape \in [{SchemaKeys[i] : i \in 1 .. n} -> FieldSchemas]} :
              n \in 1 .. MaxKeys }

\* zodSchemaToOpenAIFunction calls the conversion on tool.schema
ConvertSchema ==
    /\ zpc = "schema"
    /\ property' = IF converter = "part_004"
                   THEN zodSchemaToOpenAIProperty_part_004(schema)
                   ELSE zodSchemaToOpenAIProperty(schema)
    /\ zpc' = "converted"
    /\ UNCHANGED <<schema, converter>>
    /\ UNCHANGED <<tools, cvars, ovars, rvars, kvars, mvars, uvars, jvars, qvars>>

InitSchema ==
    /\ tools = BuiltInRegistry
    /\ IdleRegistry
    /\ IdleCompactor
    /\ IdleMcp
    /\ IdleUi
    /\ IdleJsonSchema
    /\ IdleProviderRequest
    /\ IdleChat
    /\ IdleRequest
    /\ schema \in ToolSchemas
    /\ converter \in Converters
    /\ property = <<>>
    /\ zpc = "schema"

NextSchema == ConvertSchema

SpecSchema == InitSchema /\ [][NextSchema]_vars

(***************************************************************************)
(* The schema of an MCP tool: MCPClientManager.jsonSchemaToZod,            *)
(* src/unnamed/part_003:220-272, and the parse createTool runs on the      *)
(* params before execute, src/src/utils/toolInfra.ts:18. A value is known  *)
(* by its type and by where it came from; zod's parse is modelled for the  *)
(* classes the conversion builds.                                          *)
(***************************************************************************)
ZodAny == [kind |-> "ZodAny"]
\* schema.default(value)
ZodDefaultValue(inner, value) ==
    [kind |-> "ZodDefault", inner |-> inner, defaultValue |-> value]

Value(type, from) == [type |-> type, from |-> from]
\* undefined: the key is not in the object
Undefined == Value("undefined", "nowhere")

PropertyTypes == {"string", "number", "boolean", "array"}
PropertyNames == <<"path", "depth", "force">>

\* one entry of jsonSchema.properties: its type, its default if it has one
JsonProperty(type, hasDefault) ==
    [type |-> type, default |-> IF hasDefault THEN Value(type, "default") ELSE Undefined]

\* the object schemas a server may advertise: up to MaxProperties properties,
\* any of them listed in required
JsonSchemas ==
    UNION { { [type |-> "object", properties |-> props, required |-> req] :
                props \in [{PropertyNames[i] : i \in 1 .. n} ->
                             {JsonProperty(t, d) : t \in PropertyTypes, d \in BOOLEAN}],
                req \in SUBSET {PropertyNames[i] : i \in 1 .. n} } :
            n \in 0 .. MaxProperties }

\* the params of a call: some of the keys, each with a value of some type
ToolInputs ==
    UNION { [keys -> {Value(t, "input") : t \in {"string", "number", "boolean"}}] :
            keys \in SUBSET {PropertyNames[i] : i \in 1 .. MaxProperties} }

\* the switch on propSchema.type, lines 234-255
PrimitiveSchema(type) ==
    CASE type = "string" -> ZodString
      [] type = "number" -> ZodNumber
      [] type = "boolean" -> ZodBoolean
      [] OTHER -> ZodAny

\* jsonSchemaToZod, lines 220-272
jsonSchemaToZod(js) ==
    IF js.type = "object"
    THEN ZodObject(
           [key \in DOMAIN js.properties |->
              LET propSchema == js.properties[key]
                  typed == PrimitiveSchema(propSchema.type)
                  defaulted == IF propSchema.default # Undefined
                               THEN ZodDefaultValue(typed, propSchema.default)
                               ELSE typed
              IN  IF key \notin js.required THEN ZodOptional(defaulted) ELSE defaulted])
    ELSE ZodAny

Failure == [ok |-> FALSE, value |-> Undefined]
Success(value) == [ok |-> TRUE, value |-> value]

RECURSIVE ParseValue(_, _)
\* zod's _parse of one value: ZodOptional answers undefined with undefined
\* before its inner schema is asked; ZodDefault replaces undefined by its
\* default; ZodNullable answers null with null; ZodEnum wants one of its
\* options; the primitives want their own type; ZodAny takes everything
ParseValue(zs, value) ==
    CASE zs.kind = "ZodOptional" ->
           IF value = Undefined THEN Success(Undefined) ELSE ParseValue(zs.inner, value)
      [] zs.kind = "ZodDefault" ->
           ParseValue(zs.inner, IF value = Undefined THEN zs.defaultValue ELSE value)
      [] zs.kind = "ZodNullable" ->
           IF value.type = "null" THEN Success(value) ELSE ParseValue(zs.inner, value)
      [] zs.kind = "ZodEnum" ->
           IF value.type = "string" /\ value.from = "option" THEN Success(value) ELSE Failure
      [] zs.kind = "ZodString" -> IF value.type = "string" THEN Success(value) ELSE Failure
      [] zs.kind = "ZodNumber" -> IF value.type = "number" THEN Success(value) ELSE Failure
      [] zs.kind = "ZodBoolean" -> IF value.type = "boolean" THEN Success(value) ELSE Failure
      [] OTHER -> Success(value)

\* input[key], undefined for a key the input lacks
Get(input, key) == IF key \in DOMAIN input THEN input[key] ELSE Undefined

\* schema.parse(params) of a ZodObject: every key of the shape is parsed, keys
\* beside the shape are dropped, the data holds the keys whose value is defined
ParseObject(zs, input) ==
    LET results == [key \in DOMAIN zs.shape |-> ParseValue(zs.shape[key], Get(input, key))]
    IN  IF \E key \in DOMAIN results : ~results[key].ok
        THEN [ok |-> FALSE, data |-> EmptyMap]
        ELSE [ok |-> TRUE,
              data |-> [key \in {k \in DOMAIN results : results[k].value # Undefined} |->
                          results[key].value]]

\* createToolWrappers rebuilt the schema; the wrapper is called with params
ParseParams ==
    /\ jpc = "advertised"
    /\ parsed' = ParseObject(jsonSchemaToZod(jsonSchema), toolInput)
    /\ jpc' = "parsed"
    /\ UNCHANGED <<jsonSchema, toolInput, executed, toolResult>>
    /\ UNCHANGED <<tools, cvars, ovars, rvars, kvars, mvars, uvars, zvars, qvars>>

InitJsonSchema ==
    /\ tools = BuiltInRegistry
    /\ IdleRegistry
    /\ IdleCompactor
    /\ IdleMcp
    /\ IdleUi
    /\ IdleSchema
    /\ IdleProviderRequest
    /\ IdleChat
    /\ IdleRequest
    /\ jsonSchema \in JsonSchemas
    /\ toolInput \in ToolInputs
    /\ parsed = <<>>
    /\ jpc = "advertised"
    /\ executed = <<>>
    /\ toolResult = <<>>

NextJsonSchema == ParseParams

SpecJsonSchema == InitJsonSchema /\ [][NextJsonSchema]_vars

(***************************************************************************)
(* One call of a tool built with createTool, as executeToolCalls makes it: *)
(* src/src/utils/toolInfra.ts:12-22 and src/src/openai.ts:393-424.         *)
(***************************************************************************)
\* createTool's execute calling the tool's execute without parsing
createToolUnvalidated(zs, params) ==
    [validated |-> TRUE, invokedWith |-> <<params>>]

\* the execute createTool returns, lines 17-20: tool.schema.parse(params)
\* throws on a failure; otherwise the tool's execute gets the parsed data
createTool(zs, params) ==
    LET validatedParams == ParseObject(zs, params)
    IN  IF validatedParams.ok
        THEN [validated |-> TRUE, invokedWith |-> <<validatedParams.data>>]
        ELSE [validated |-> FALSE, invokedWith |-> <<>>]

\* what the tool's own execute may do once invoked
ExecuteOutcomes == {"ok", "throw"}

\* the body of the for loop for a registered tool and arguments that are JSON:
\* the result of execute is pushed, or the catch pushes "Error: " and the
\* message of what was thrown, a ZodError or the tool's error, lines 393-424
ExecuteToolCall ==
    /\ jpc = "advertised"
    /\ \E outcome \in ExecuteOutcomes :
         LET call == createTool(jsonSchemaToZod(jsonSchema), toolInput) IN
         /\ outcome = "throw" => call.validated
         /\ executed' = call.invokedWith
         /\ toolResult' =
              [name |-> mcp_tool, args |-> toolInput,
               result |-> IF ~call.validated THEN <<ErrorPrefix, "zod issues">>
                          ELSE IF outcome = "throw" THEN <<ErrorPrefix, "MCP tool error: ">>
                          ELSE <<"tool output">>]
    /\ parsed' = ParseObject(jsonSchemaToZod(jsonSchema), toolInput)
    /\ jpc' = "settled"
    /\ UNCHANGED <<jsonSchema, toolInput>>
    /\ UNCHANGED <<tools, cvars, ovars, rvars, kvars, mvars, uvars, zvars, qvars>>

NextToolCall == ExecuteToolCall

SpecToolCall == InitJsonSchema /\ [][NextToolCall]_vars

(***************************************************************************)
(* A tool's function schema against its own validation: the schema is      *)
(* converted for the provider (getToolDefinitions, src/src/openai.ts:453)  *)
(* and the provider, in strict mode, answers with arguments that conform   *)
(* to it; the call then runs through createTool.                           *)
(***************************************************************************)
\* the schema of AgentDoneTool, src/src/tools/internalPlan.ts:153-157
AgentDoneSchema ==
    ZodObject([key \in {"summary", "final_status", "next_steps"} |->
                 CASE key = "summary" -> ZodString
                   [] key = "final_status" -> ZodEnum
                   [] OTHER -> ZodOptional(ZodString)])

\* the values an argument may have: a string, one of an enum's options, a
\* number, a boolean, null
ArgumentValues ==
    {Value(t, "input") : t \in {"string", "number", "boolean", "null"}}
      \cup {Value("string", "option")}

\* the value is one the property of the function schema allows
ConformsTo(prop, value) ==
    /\ \E k \in 1 .. Len(prop.type) : prop.type[k] = value.type
    /\ (prop.enum /\ value.type = "string") => value.from = "option"

\* the argument objects the function schema allows: every key of required
\* present (all are, and additionalProperties is false), each value of a type
\* its property lists
ConformingArguments(parameters) ==
    {input \in [parameters.required -> ArgumentValues] :
        \A key \in parameters.required : ConformsTo(parameters.properties[key], input[key])}

\* the provider calls the tool with arguments conforming to the function
\* schema it was given, and executeToolCalls runs the call
ConformingCall ==
    /\ zpc = "converted"
    /\ jpc = "advertised"
    /\ \E input \in ConformingArguments(property), outcome \in ExecuteOutcomes :
         LET call == createTool(schema, input) IN
         /\ outcome = "throw" => call.validated
         /\ toolInput' = input
         /\ executed' = call.invokedWith
         /\ parsed' = ParseObject(schema, input)
         /\ toolResult' =
              [name |-> IF jsonSchema = <<>> THEN agent_done ELSE mcp_tool,
               args |-> input,
               result |-> IF ~call.validated THEN <<ErrorPrefix, "zod issues">>
                          ELSE IF outcome = "throw" THEN <<ErrorPrefix, "tool error">>
                          ELSE <<"tool output">>]
    /\ jpc' = "settled"
    /\ UNCHANGED jsonSchema
    /\ UNCHANGED <<tools, cvars, ovars, rvars, kvars, mvars, uvars, zvars, qvars>>

\* a built-in tool with its schema, or a tool of an external server with the
\* schema createToolWrappers rebuilt from what the server advertised
InitConformance ==
    /\ tools = BuiltInRegistry
    /\ IdleRegistry
    /\ IdleCompactor
    /\ IdleMcp
    /\ IdleUi
    /\ IdleProviderRequest
    /\ IdleChat
    /\ IdleRequest
    /\ \/ jsonSchema = <<>> /\ schema = AgentDoneSchema
       \/ jsonSchema \in JsonSchemas /\ schema = jsonSchemaToZod(jsonSchema)
    /\ converter \in Converters
    /\ property = <<>>
    /\ zpc = "schema"
    /\ toolInput = <<>>
    /\ parsed = <<>>
    /\ jpc = "advertised"
    /\ executed = <<>>
    /\ toolResult = <<>>

NextConformance ==
    \/ ConvertSchema
    \/ ConformingCall

SpecConformance == InitConformance /\ [][NextConformance]_vars

(***************************************************************************)
(* What is sent to the provider: the copy ChatMode.execute and             *)
(* AgentMode.execute make of previousMessages, src/unnamed/part_001:22-35  *)
(* and src/src/modes/agent.ts:22-35, and the messages of the request of    *)
(* chat(), src/src/openai.ts:178-211. An optional field is a record that   *)
(* says whether it is defined.                                             *)
(***************************************************************************)
Absent == [defined |-> FALSE, value |-> <<>>]
Present(value) == [defined |-> TRUE, value |-> value]

\* a message of the screen's conversation
ScreenMessage(role, content, tool_call_id, tool_calls, isInternal, displayContent) ==
    [role |-> role, content |-> content, tool_call_id |-> tool_call_id,
     tool_calls |-> tool_calls, isInternal |-> isInternal,
     displayContent |-> displayContent]

\* the values the UI-only fields of one message may have
UiOnlyFields ==
    { [isInternal |-> Absent, displayContent |-> Absent],
      [isInternal |-> Present(<<"true">>), displayContent |-> Absent],
      [isInternal |-> Absent, displayContent |-> Present(<<"shown text">>)] }

\* the messages of a conversation: user and assistant text, an assistant
\* message with tool calls or with an empty list of them, a tool result
ScreenMessages ==
    { ScreenMessage(m.role, m.content, m.id, m.calls, u.isInternal, u.displayContent) :
        m \in { [role |-> "user", content |-> <<"question">>, id |-> Absent, calls |-> Absent],
                [role |-> "assistant", content |-> <<"answer">>, id |-> Absent,
                 calls |-> Absent],
                [role |-> "assistant", content |-> <<>>, id |-> Absent,
                 calls |-> Present(<<StreamId(0)>>)],
                [role |-> "assistant", content |-> <<"answer">>, id |-> Absent,
                 calls |-> Present(<<>>)],
                [role |-> "tool", content |-> ResultText(StreamId(0)),
                 id |-> Present(StreamId(0)), calls |-> Absent] },
        u \in UiOnlyFields }

ScreenLists == UNION {[1 .. n -> ScreenMessages] : n \in 1 .. MaxListLength}

\* the two messages agree on what is not UI-only
SameBesideUiOnly(a, b) ==
    /\ a.role = b.role
    /\ a.content = b.content
    /\ a.tool_call_id = b.tool_call_id
    /\ a.tool_calls = b.tool_calls

\* RequestMessage sending the displayed text where there is one
RequestMessageShown(msg) ==
    LET content == IF msg.displayContent.defined THEN msg.displayContent.value
                   ELSE msg.content
    IN  IF msg.role = "tool"
        THEN [role |-> "tool", content |-> content, tool_call_id |-> msg.tool_call_id]
        ELSE IF msg.role = "assistant" /\ msg.tool_calls.defined
        THEN [role |-> msg.role, content |-> content, tool_calls |-> msg.tool_calls]
        ELSE [role |-> msg.role, content |-> content]

\* the callback of allMessages.map, openai.ts:185-204
RequestMessage(msg) ==
    IF msg.role = "tool"
    THEN [role |-> "tool", content |-> msg.content, tool_call_id |-> msg.tool_call_id]
    ELSE IF msg.role = "assistant" /\ msg.tool_calls.defined
    THEN [role |-> msg.role, content |-> msg.content, tool_calls |-> msg.tool_calls]
    ELSE [role |-> msg.role, content |-> msg.content]

\* the system message of chat(), lines 141-176
SystemMessage(isAgentMode) ==
    ScreenMessage("system", IF isAgentMode THEN <<"agent mode prompt">> ELSE SystemPrompt,
                  Absent, Absent, Absent, Absent)

\* the argument of client.chat.completions.create, lines 183-211
ProviderRequest(msgs, withTools, isAgentMode) ==
    LET all == <<SystemMessage(isAgentMode)>> \o msgs
    IN  [messages |-> [k \in 1 .. Len(all) |-> RequestMessage(all[k])],
         tools |-> RequestFor(withTools).defs,
         stream |-> TRUE]

\* const messages = [...previousMessages.map(copy), { role: 'user', content:
\* userInput }] of both modes
ModeMessages(previousMsgs) ==
    [k \in 1 .. Len(previousMsgs) |->
        ScreenMessage(previousMsgs[k].role, previousMsgs[k].content,
                      previousMsgs[k].tool_call_id, previousMsgs[k].tool_calls,
                      previousMsgs[k].isInternal, previousMsgs[k].displayContent)]
      \o <<ScreenMessage("user", UserInput, Absent, Absent, Absent, Absent)>>

\* the first request of ChatMode.execute, of AgentMode.execute and of chat()
\* called with the list itself
FirstRequests(list) ==
    [ChatMode |-> ProviderRequest(ModeMessages(list), TRUE, FALSE),
     AgentMode |-> ProviderRequest(ModeMessages(list), TRUE, TRUE),
     chat |-> ProviderRequest(list, FALSE, FALSE)]

SendBoth ==
    /\ qpc = "lists"
    /\ requestA' = FirstRequests(listA)
    /\ requestB' = FirstRequests(listB)
    /\ qpc' = "sent"
    /\ UNCHANGED <<listA, listB>>
    /\ UNCHANGED <<tools, cvars, ovars, rvars, kvars, mvars, uvars, zvars, jvars>>

InitRequest ==
    /\ tools = BuiltInRegistry
    /\ IdleRegistry
    /\ IdleCompactor
    /\ IdleMcp
    /\ IdleUi
    /\ IdleSchema
    /\ IdleJsonSchema
    /\ IdleChat
    /\ IdleRequest
    /\ listA \in ScreenLists
    /\ listB \in {l \in [1 .. Len(listA) -> ScreenMessages] :
                     \A k \in 1 .. Len(listA) : SameBesideUiOnly(listA[k], l[k])}
    /\ requestA = <<>>
    /\ requestB = <<>>
    /\ qpc = "lists"

NextRequest == SendBoth

SpecRequest == InitRequest /\ [][NextRequest]_vars

(***************************************************************************)
(* Properties of the registry and of the compactor.                        *)
(***************************************************************************)
\* the registrations made so far under this name
RegistrationsOf(name) == SelectSeq(registered, LAMBDA t : t.name = name)

\* the conflict warnings emitted so far for this name
WarningsOf(name) == SelectSeq(warnings, LAMBDA n : n = name)

\* C18: registering a tool under a name already in the registry (two built-ins
\* given to the constructor, an external tool colliding with a built-in, two
\* servers advertising the same bare name) makes the later registration the
\* one every later lookup finds, and emits exactly one conflict warning for
\* that overwrite.
C18_OverwriteWinsWithOneWarning ==
    \A name \in {registered[k].name : k \in 1 .. Len(registered)} :
        LET regs == RegistrationsOf(name) IN
        /\ name \in DOMAIN tools
        /\ tools[name] = regs[Len(regs)].instance
        /\ Len(WarningsOf(name)) = Len(regs) - 1

\* the non-tool and the tool-role messages given to this compact call
NonToolMessages == SelectSeq(messages, LAMBDA m : m.role # "tool")
ToolRoleMessages == SelectSeq(messages, LAMBDA m : m.role = "tool")

\* the last n elements of a sequence of at least n elements
LastN(seq, n) == SubSeq(seq, Len(seq) - n + 1, Len(seq))

Min(a, b) == IF a < b THEN a ELSE b

\* C19: for every keepRecentCount k >= 0, compact(messages, k) issues a
\* summarization call if and only if there are more than 2k non-tool messages;
\* otherwise it returns the input list unchanged with tokensSaved = 0 and
\* compactedCount = originalCount, so compacting a short list again and again
\* is the identity.
C19_SummarizesIffAboveThreshold ==
    compactPc = "returned" =>
        /\ (summaryCalls = 1) <=> (Len(NonToolMessages) > 2 * keepRecentCount)
        /\ summaryCalls \in {0, 1}
        /\ Len(NonToolMessages) <= 2 * keepRecentCount =>
              /\ compactResult.compactedMessages = messages
              /\ compactResult.tokensSaved = 0
              /\ compactResult.originalCount = Len(messages)
              /\ compactResult.compactedCount = Len(messages)

\* C20: when compaction runs successfully on C > 2k non-tool and T tool-role
\* messages, the result is one summary message, then the last min(5, T)
\* tool-role messages in their order, then the last 2k non-tool messages in
\* their order: 1 + min(5, T) + 2k messages, with tokensSaved >= 0.
C20_CompactedShape ==
    (compactPc = "returned" /\ summaryOutcome = "resolved") =>
        LET k == keepRecentCount
            C == Len(NonToolMessages)
            T == Len(ToolRoleMessages)
            keptTools == Min(5, T)
            out == compactResult.compactedMessages
        IN  /\ C > 2 * k
            /\ Len(out) = 1 + keptTools + 2 * k
            /\ out[1].role = "assistant"
            /\ out[1].content[1] = SummaryHeader
            /\ SubSeq(out, 2, 1 + keptTools) = LastN(ToolRoleMessages, keptTools)
            /\ SubSeq(out, 2 + keptTools, Len(out)) = LastN(NonToolMessages, 2 * k)
            /\ compactResult.tokensSaved >= 0
            /\ compactResult.originalCount = Len(messages)
            /\ compactResult.compactedCount = Len(out)

\* the scenario of 10 conversational and 7 tool messages with keepRecentCount 3,
\* compacted to 12 messages
C20_Witness ==
    /\ compactPc = "returned"
    /\ summaryOutcome = "resolved"
    /\ keepRecentCount = 3
    /\ Len(NonToolMessages) = 10
    /\ Len(ToolRoleMessages) = 7
    /\ Len(compactResult.compactedMessages) = 12
    /\ compactResult.tokensSaved > 0

\* C21: if the summarization call fails, compact resolves with the original
\* message list, every message in the same order, with tokensSaved = 0 and
\* compactedCount = originalCount.
C21_FailedSummaryKeepsMessages ==
    /\ compactPc = "summarizing" => ENABLED SummaryRejects
    /\ (compactPc = "returned" /\ summaryOutcome = "rejected") =>
          /\ summaryCalls = 1
          /\ compactResult.compactedMessages = messages
          /\ compactResult.tokensSaved = 0
          /\ compactResult.originalCount = Len(messages)
          /\ compactResult.compactedCount = compactResult.originalCount

\* a conversation with tool messages whose summarization call failed
C21_Witness ==
    /\ compactPc = "returned"
    /\ summaryOutcome = "rejected"
    /\ Len(ToolRoleMessages) >= 2
    /\ Len(NonToolMessages) >= 5
    /\ compactResult.compactedMessages = messages

\* the servers all of whose setup works
Healthy(server) == health[server] = "ok"

\* the entries of the manager's tool map that come from this server
ToolsFrom(server) == {key \in DOMAIN managerTools : managerTools[key].serverName = server}

\* C22: in MCPClientManager.initialize, whatever subset of the configured
\* servers fails in its transport, handshake or tool listing, initialize still
\* resolves, the tools of every other server are discovered, and the failed
\* servers contribute no tools.
C22_ServerFailuresIsolated ==
    /\ \A conn \in DOMAIN attempts :
          attempts[conn] \in {"connecting", "listing"} =>
              ENABLED (ConnectResolves(conn) \/ ConnectRejects(conn)
                       \/ ListResolves(conn) \/ ListRejects(conn))
    /\ \A run \in DOMAIN initState :
          /\ (initState[run] = "running"
                /\ \A s \in mcpServers :
                      attempts[Connection(run, s)] \notin {"connecting", "listing"})
              => ENABLED InitializeResolves(run)
          /\ initState[run] = "resolved" =>
                \A s \in mcpServers :
                    IF Healthy(s)
                    THEN /\ attempts[Connection(run, s)] = "done"
                         /\ \A n \in ServerTools(s) :
                               /\ ToolKey(s, n) \in DOMAIN managerTools
                               /\ managerTools[ToolKey(s, n)].name = n
                               /\ managerTools[ToolKey(s, n)].serverName = s
                    ELSE /\ attempts[Connection(run, s)] \in {"failed", "listFailed"}
                         /\ ToolsFrom(s) = {}

\* an initialize call resolved with one server failing in its handshake and
\* the other discovered
C22_Witness ==
    /\ mcpServers = ServerNames
    /\ health["alpha"] = "noHandshake"
    /\ health["beta"] = "ok"
    /\ initState[1] = "resolved"
    /\ ToolsFrom("alpha") = {}
    /\ Cardinality(ToolsFrom("beta")) = 2

\* the connections whose connect resolved
Opened == {conn \in DOMAIN attempts : attempts[conn] \in {"listing", "done", "listFailed"}}

\* C23: disconnect() closes every connection that was opened; a close that
\* throws neither prevents the other closes nor makes disconnect reject; a
\* second disconnect() closes nothing again and leaves the connection and tool
\* sets empty.
C23_DisconnectClosesAllOnce ==
    /\ dpc = "closing" => ENABLED DisconnectResolves
    /\ (dpc = "idle" /\ disconnectCalls >= 1 /\ DOMAIN clients = {}) =>
          Opened \subseteq Closed
    /\ \A e1, e2 \in closeLog : e1.conn = e2.conn => e1.call = e2.call
    /\ (dpc = "idle" /\ disconnectCalls >= 1) =>
          /\ \A s \in DOMAIN clients : clients[s] \notin Closed
          /\ \A key \in DOMAIN managerTools : managerTools[key].client \notin Closed


(***************************************************************************)
(* Properties of a chat() call racing the MCP discovery (SpecRace).        *)
(***************************************************************************)
\* the positions of events at which the discovered tools were registered
RegisteredPositions == {k \in 1 .. Len(events) : events[k].ev = "registered"}

\* the call of this turn with the given id names the discovered tool
IsMcpCall(id) ==
    \E i \in 1 .. Len(toolCalls) : toolCalls[i].id = id /\ toolCalls[i].name = mcp_tool

\* C24: for every interleaving of the background MCP discovery with a chat()
\* call, a call of the discovered tool that is handled before the registration
\* is skipped as unknown, at once and for good (no execute and no onToolCall
\* for it later), and one handled after the registration is executed.
C24_RegistryReadAtExecution ==
    /\ \A k \in 1 .. Len(events) :
          (events[k].ev = "warn" /\ IsMcpCall(events[k].id)) =>
              /\ \A r \in RegisteredPositions : r > k
              /\ ~HasEvent("execute", events[k].id)
              /\ ~HasEvent("onToolCall", events[k].id)
    /\ \A k \in 1 .. Len(events) :
          (events[k].ev = "execute" /\ IsMcpCall(events[k].id)) =>
              \E r \in RegisteredPositions : r < k
    /\ \A i \in 1 .. Len(toolCalls) :
          (cpc \in {"executing", "returned"} /\ i < cursor /\ toolCalls[i].name = mcp_tool) =>
              (HasEvent("warn", toolCalls[i].id) # HasEvent("execute", toolCalls[i].id))
    /\ (InLoop /\ ~inflight /\ toolCalls[cursor].name = mcp_tool) =>
          IF RegisteredPositions = {} THEN ENABLED SkipUnknown ELSE ENABLED StartExecute

\* a returned turn in which the registration landed while the first call, of a
\* built-in tool, was awaited, and the second call, of the discovered tool, was
\* then executed
C24_Witness ==
    /\ cpc = "returned"
    /\ Len(toolCalls) = 2
    /\ toolCalls[1].name = web_search
    /\ toolCalls[2].name = mcp_tool
    /\ \E r \in RegisteredPositions :
          /\ \E e \in EventsOf("execute", toolCalls[1].id) : e < r
          /\ \E x \in EventsOf("resolved", toolCalls[1].id) : r < x
    /\ HasEvent("execute", toolCalls[2].id)
    /\ HasEvent("resolved", toolCalls[2].id)


(***************************************************************************)
(* Properties of the chat screen (SpecUi).                                 *)
(***************************************************************************)
\* C25: at most one operation works on a conversation at a time: while an
\* execute started by handleSubmit has not returned no second execute starts
\* and the message list is not replaced by a manual or automatic compaction.
C25_OneOperationAtATime ==
    /\ Len(running) <= 1
    /\ ~replacedWhileRunning


(***************************************************************************)
(* Properties of the schema bridge (SpecSchema).                           *)
(***************************************************************************)
\* the schema under its wrappers
RECURSIVE Unwrapped(_)
Unwrapped(s) ==
    IF s.kind \in {"ZodOptional", "ZodNullable", "ZodDefault"} THEN Unwrapped(s.inner) ELSE s

RECURSIVE RequiredComplete(_)
\* every object of the generated schema lists each of its properties in required
RequiredComplete(p) ==
    /\ p.required = DOMAIN p.properties
    /\ \A key \in DOMAIN p.properties : RequiredComplete(p.properties[key])
    /\ p.items # NoItems => RequiredComplete(p.items)

RECURSIVE NullsMarked(_, _)
\* every field of the source that is a ZodOptional or a ZodNullable, at every
\* level at which the generated schema has the source's object, has "null"
\* among its types
NullsMarked(s, p) ==
    CASE s.kind = "ZodObject" /\ DOMAIN p.properties = DOMAIN s.shape ->
           \A key \in DOMAIN s.shape :
              /\ s.shape[key].kind \in {"ZodOptional", "ZodNullable"} =>
                    \E i \in 1 .. Len(p.properties[key].type) :
                        p.properties[key].type[i] = "null"
              /\ NullsMarked(Unwrapped(s.shape[key]), p.properties[key])
      [] s.kind = "ZodArray" /\ p.items # NoItems -> NullsMarked(Unwrapped(s.element), p.items)
      [] OTHER -> TRUE

\* C26: for every tool parameter schema the generated function schema lists
\* every property key in required at every nested object level, and every
\* field that is optional or nullable in the source has a type union that
\* includes "null".
C26_AllRequiredNullForOptional ==
    zpc = "converted" =>
        /\ DOMAIN property.properties = DOMAIN schema.shape
        /\ RequiredComplete(property)
        /\ NullsMarked(schema, property)


(***************************************************************************)
(* Properties of the schema of an MCP tool (SpecJsonSchema).               *)
(***************************************************************************)
Primitive(key) == jsonSchema.properties[key].type \in {"string", "number", "boolean"}
Defaulted(key) == jsonSchema.properties[key].default # Undefined
Lacks(key) == key \notin DOMAIN toolInput

\* every property the input has is of the advertised type
WellTyped ==
    \A key \in DOMAIN jsonSchema.properties \cap DOMAIN toolInput :
        Primitive(key) => toolInput[key].type = jsonSchema.properties[key].type

\* C27: the schema rebuilt from a server-advertised object schema rejects an
\* input that lacks a string, number or boolean field listed in required (and
\* advertised without a default), accepts a well-typed input that lacks only
\* fields that are not required, and yields the advertised default for a
\* defaulted field the input lacks.
C27_RequiredAndDefaultRespected ==
    jpc = "parsed" =>
        /\ \A key \in DOMAIN jsonSchema.properties :
              (key \in jsonSchema.required /\ Primitive(key) /\ ~Defaulted(key)
                 /\ Lacks(key)) => ~parsed.ok
        /\ (WellTyped /\ \A key \in DOMAIN jsonSchema.properties :
                             Lacks(key) => key \notin jsonSchema.required) => parsed.ok
        /\ \A key \in DOMAIN jsonSchema.properties :
              (Defaulted(key) /\ Lacks(key) /\ parsed.ok) =>
                  /\ key \in DOMAIN parsed.data
                  /\ parsed.data[key] = jsonSchema.properties[key].default


(***************************************************************************)
(* The two paths of chat() (SpecChat).                                     *)
(***************************************************************************)
\* the ids of the calls whose execute was started, in order
ExecuteOrder ==
    LET started == SelectSeq(events, LAMBDA e : e.ev = "execute")
    IN  [k \in 1 .. Len(started) |-> started[k].id]

\* C28: for the same provider output (content and list of tool calls) and the
\* same tool behaviour, the non-streaming path of chat() returns the same
\* content, toolCalls and messagesToAdd as the streaming path and executes
\* the same tools in the same order.
C28_PathsEquivalent ==
    cpc = "returned" =>
        /\ response = NonStreamingResponse(fullContent, CompletionToolCalls(intended))
        /\ ExecuteOrder = ExecutedBy(CompletionToolCalls(intended))

\* a streamed turn returned with content and two calls, one executed and
\* rejecting, one with arguments that do not parse
C28_Witness ==
    /\ cpc = "returned"
    /\ fullContent # <<>>
    /\ Len(toolCalls) = 2
    /\ CountEvents("rejected") = 1
    /\ CountEvents("execute") = 1
    /\ Len(response.toolCalls) = 2
    /\ Len(response.messagesToAdd) = 3


\* C29: chat() never modifies the message list its caller passed and issues
\* exactly one provider request per call, none after running tools; the
\* assistant tool-call message and the tool messages of the turn are in the
\* returned messagesToAdd only.
C29_CallerListUntouchedOneRequest ==
    /\ [](/\ requests = (IF cpc = "start" THEN 0 ELSE 1)
          /\ messagesArg \in ChatArguments
          /\ \A k \in 1 .. Len(messagesArg) :
                messagesArg[k].role # "tool" /\ messagesArg[k].tool_calls = <<>>
          /\ (cpc = "returned" /\ Len(toolCalls) > 0) =>
                response.messagesToAdd = BuildMessagesToAdd(toolCalls, toolCallResults))
    /\ [][messagesArg' = messagesArg]_vars

\* a call returned after running a tool on a list of three messages
C29_Witness ==
    /\ cpc = "returned"
    /\ Len(messagesArg) = 3
    /\ requests = 1
    /\ CountEvents("resolved") = 1
    /\ Len(response.messagesToAdd) = 2


(***************************************************************************)
(* Properties of what is sent to the provider (SpecRequest).               *)
(***************************************************************************)
\* C30: the request sent to the provider depends only on each message's role,
\* content, tool_call_id and tool_calls: two lists that differ only in
\* displayContent or isInternal give identical requests in ChatMode, in
\* AgentMode and in chat().
C30_UiOnlyFieldsNotSent ==
    qpc = "sent" => requestA = requestB

\* requests were built for two different lists of two messages, one with a
\* displayed text and one marked internal, with a tool result among them
C30_Witness ==
    /\ qpc = "sent"
    /\ Len(listA) = 2
    /\ listA[1] # listB[1]
    /\ listA[2] # listB[2]
    /\ \E k \in 1 .. 2 : listA[k].displayContent.defined
    /\ \E k \in 1 .. 2 : listB[k].isInternal.defined
    /\ \E k \in 1 .. 2 : listA[k].role = "tool"
    /\ Len(requestA.AgentMode.messages) = 4

(***************************************************************************)
(* Properties of what AgentMode.execute returns and appends (Spec).        *)
(***************************************************************************)
\* the content of every response of h, in order
ContentsOf(h) == [k \in 1 .. Len(h) |-> h[k].content]

\* the loop ended by reaching maxIterations, without a completion signal
Exhausted == iteration >= maxIterations /\ ~DoneSignalled /\ ~TrivialExit

PromptKind(remaining) ==
    IF remaining > 1 THEN "turns remaining"
    ELSE IF remaining = 1 THEN "only 1 turn remaining"
    ELSE "FINAL TURN"

\* the messages of m flagged isInternal
InternalOf(m) == SelectSeq(m, LAMBDA msg : msg.isInternal)

\* the iteration that gave result broke out of the loop
BrokeOut(it, result) ==
    \/ it = 1 /\ Len(result.messagesToAdd) = 0
    \/ Len(result.messagesToAdd) > 0 /\ AgentDoneCalled(result)

\* the messages of the iteration that gave result
IterationMessages(result) ==
    IF Len(result.messagesToAdd) > 0 THEN result.messagesToAdd
    ELSE <<AssistantMessage(result.content)>>

\* C32: after each iteration that does not break out of the agent loop,
\* exactly one user-role message flagged isInternal is appended, after that
\* iteration's messages (messagesToAdd, or the plain content as an assistant
\* message when there were no tool calls); its wording is selected by
\* remaining = maxIterations - iteration: generic continue when remaining > 1,
\* the wrap-up warning when remaining = 1, the FINAL TURN text when
\* remaining = 0. An iteration that breaks out appends no internal message.
C32_OneContinuationPerIteration ==
    [][(mode = "agent" /\ Len(history') = Len(history) + 1) =>
         LET result == history'[Len(history')]
             appended == SubSeq(currentMessages', Len(currentMessages) + 1,
                                Len(currentMessages'))
             own == IterationMessages(result)
         IN  /\ SubSeq(currentMessages', 1, Len(currentMessages)) = currentMessages
             /\ IF BrokeOut(iteration', result)
                THEN InternalOf(appended) = <<>>
                ELSE /\ Len(appended) = Len(own) + 1
                     /\ SubSeq(appended, 1, Len(own)) = own
                     /\ Len(InternalOf(appended)) = 1
                     /\ appended[Len(appended)].role = "user"
                     /\ appended[Len(appended)].isInternal
                     /\ appended[Len(appended)].content[1] =
                           PromptKind(maxIterations - iteration')]_vars

\* a run that used its whole budget, with iterations of tool calls and of plain
\* content, and so received the three wordings
C32_Witness ==
    /\ mode = "agent"
    /\ pc = "done"
    /\ iteration = maxIterations
    /\ Len(InternalOf(currentMessages)) = maxIterations
    /\ \A kind \in {"turns remaining", "only 1 turn remaining", "FINAL TURN"} :
          \E k \in 1 .. Len(currentMessages) :
             currentMessages[k].isInternal /\ currentMessages[k].content[1] = kind
    /\ \E k \in 1 .. Len(history) : Len(history[k].messagesToAdd) = 0
    /\ \E k \in 1 .. Len(history) : Len(history[k].messagesToAdd) > 0

\* C33: every internal continuation message appended by AgentMode.execute is
\* part of the message list of a later chat() call of the same run: once the
\* run has ended, each internal message of the working list was in the list
\* given to the last chat() call, the FINAL TURN message included.
C33_ContinuationsReachProvider ==
    (mode = "agent" /\ pc \in {"done", "failed"}) =>
        \A k \in 1 .. Len(currentMessages) :
            currentMessages[k].isInternal =>
                /\ k <= Len(lastSent)
                /\ lastSent[k] = currentMessages[k]

\* C34: in AgentMode.execute every chat() call after the first is preceded by
\* exactly one onNewMessage signal issued since the previous chat() call,
\* after an iteration that produced tool calls and after one that produced
\* only plain content alike.
C34_NewMessageBeforeEveryCall ==
    [][(mode = "agent" /\ chatCalls' = chatCalls + 1 /\ chatCalls >= 1) =>
          newMessageSignals = 1]_vars

(***************************************************************************)
(* The order of the messages a compaction retains (SpecCompact).           *)
(***************************************************************************)
\* where msg stands in the list given to compact
InputPosition(msg) == CHOOSE p \in 1 .. Len(messages) : messages[p] = msg

\* C35: a successful compaction keeps the relative order of the messages it
\* retains: of any two input messages of the compacted list (all but the
\* summary at its head), tool-role or conversational, the one that came first
\* in the input comes first in the compacted list.
C35_CompactionKeepsOrder ==
    (compactPc = "returned" /\ summaryOutcome = "resolved") =>
        LET out == compactResult.compactedMessages IN
        \A i, j \in 2 .. Len(out) :
            i < j => InputPosition(out[i]) < InputPosition(out[j])

(***************************************************************************)
(* disconnect() against the initialization in the background (SpecMcp).    *)
(***************************************************************************)
\* the connections whose connect has resolved and that were not closed
OpenConnections ==
    {conn \in DOMAIN attempts :
        attempts[conn] \in {"listing", "done", "listFailed"} /\ conn \notin Closed}

\* C36: whatever the interleaving of disconnect() with the initialization the
\* constructor started in the background (and no other initialize call), once
\* a disconnect() has resolved no connection to an external server is open, and
\* none is stored in the manager nor a tool of it registered afterwards.
C36_NothingOpenAfterDisconnect ==
    (initState[2] = "notStarted" /\ disconnectCalls >= 1) =>
        /\ OpenConnections = {}
        /\ DOMAIN clients = {}
        /\ DOMAIN managerTools = {}

\* the connections to this server whose connect has resolved
OpenedTo(server) ==
    {conn \in DOMAIN attempts :
        ServerOf(conn) = server /\ attempts[conn] \in {"listing", "done", "listFailed"}}

\* both initialize calls of OpenAIClient.create have resolved
CreateResolved == \A r \in 1 .. 2 : initState[r] = "resolved"

\* C37: building a client with OpenAIClient.create (the constructor's
\* initialization and the awaited one) opens at most one connection per
\* configured server, and every connection it opened is one a later
\* disconnect() closes: when create has resolved and disconnect() was not yet
\* called, each open connection is held in the manager's clients map.
C37_CreateOpensOneConnectionEach ==
    initState[2] # "notStarted" =>
        /\ \A s \in mcpServers : Cardinality(OpenedTo(s)) <= 1
        /\ (CreateResolved /\ disconnectCalls = 0 /\ dpc = "idle") =>
              \A conn \in OpenConnections :
                 /\ ServerOf(conn) \in DOMAIN clients
                 /\ clients[ServerOf(conn)] = conn

(***************************************************************************)
(* When the discovered tools enter the registry (SpecDiscovery).           *)
(***************************************************************************)
\* every connectToServer call of this initialize call has settled
Settled(run) ==
    \A s \in mcpServers :
        /\ Connection(run, s) \in DOMAIN attempts
        /\ attempts[Connection(run, s)] \in {"done", "failed", "listFailed"}

\* a lookup in the registry finds a tool of an external server
ExternalVisible == \E n \in DOMAIN tools : tools[n][1] = "mcp "

Validates(params) == ParseObject(jsonSchemaToZod(jsonSchema), params).ok

\* C39: for a tool built with createTool, the underlying execute is invoked
\* only with what the schema's parse returned for params that passed the
\* validation; when the validation fails the underlying execute is not invoked
\* and the failure surfaces as a ToolCallResult whose result starts with
\* "Error: ".
C39_ExecuteOnlyValidated ==
    jpc = "settled" =>
        /\ \A k \in 1 .. Len(executed) :
              /\ Validates(toolInput)
              /\ executed[k] = ParseObject(jsonSchemaToZod(jsonSchema), toolInput).data
        /\ ~Validates(toolInput) =>
              /\ executed = <<>>
              /\ toolResult.result[1] = ErrorPrefix
              /\ toolResult.name = mcp_tool

\* a call whose params give a number where the schema wants a string: no
\* execute, an error result
C39_Witness ==
    /\ jpc = "settled"
    /\ "path" \in DOMAIN jsonSchema.properties
    /\ jsonSchema.properties["path"].type = "string"
    /\ "path" \in DOMAIN toolInput
    /\ toolInput["path"].type = "number"
    /\ executed = <<>>
    /\ toolResult.result[1] = ErrorPrefix

(***************************************************************************)
(* Schema-conforming calls and the tool's validation (SpecConformance).    *)
(***************************************************************************)
\* C40: every argument object that conforms to the function schema generated
\* for a tool (all keys present, null supplied for an optional field) is
\* accepted by that tool's parameter validation in createTool, for a built-in
\* tool and for a tool rebuilt from an external server's schema: a conforming
\* call is validated, reaches the tool's execute, and its result is an error
\* only if that execute threw.
C40_ConformingCallsValidate ==
    jpc = "settled" =>
        /\ parsed.ok
        /\ Len(executed) = 1

====
